---- MODULE Spec2Model ----
(***************************************************************************)
(* A model of two subsystems of the storage node:                          *)
(*   - the local read path  (src/src/raftstore/store/worker/read.rs)       *)
(*   - the bulk ingest engine (src/src/import/engine.rs)                   *)
(* Each subsystem has its own variables and its own specification; a       *)
(* specification leaves the other subsystem's variables unchanged.         *)
(***************************************************************************)
EXTENDS Integers, Sequences, FiniteSets, TLC

VARIABLES
    \* ---- local reader (LocalReader<C>) ----
    delegates,      \* region id -> ReadDelegate (a HashMap: the domain is the registered regions)
    metrics,        \* ReadMetrics: the nine rejection counters
    ch,             \* the channel to raftstore: the queue of forwarded messages
    ch_closed,      \* TRUE once the receiving end of the channel is gone
    panicked,       \* TRUE once the reader thread has panicked
    now,            \* the monotonic clock
    exec,           \* run_batch's position and its ReadExecutor
    invoked,        \* the callbacks invoked by the task processed last, in order
    inspected,      \* history: regions whose current lease was inspected Valid at
                    \* the snapshot_time of the running batch
    renewed,        \* history: the (region, time) of each renewal by a leader that had
                    \* expired its lease, since the delegate's lease was last set
    offered,        \* the message a sender asked Task::acceptable about last, and the answer
    scheduled,      \* the BatchRaftSnapCmds scheduled to the reader and not yet drained
    drained,        \* the task vectors handed to run_batch so far, when the specification
                    \* fixes them at entry (on): the tasks in order, how many of them are
                    \* processed, and the registry at construction
    \* ---- bulk ingest engine (Engine) ----
    db,             \* the engine's LSM: the memtable and the flushed tables
    script,         \* the puts the client will issue, in order
    pc,             \* how many puts of the script have been issued
    props,          \* the SizeProperties returned by the last get_size_properties
    ranges,         \* the last get_approximate_ranges call: its arguments and result
    batch,          \* the WriteBatch written last by Engine::write
    \* ---- SST writer (SSTWriter) and the store its files are ingested into ----
    sst,            \* the two SstFileWriters and their entry counters
    puts,           \* history: the (key, value) pairs of the puts that returned Ok
    infos,          \* the SSTInfos returned by finish
    store           \* the fresh store after the ingest of the files

readerVars ==
    <<delegates, metrics, ch, ch_closed, panicked, now, exec, invoked, inspected, renewed,
      offered, scheduled, drained>>

engineVars == <<db, script, pc, props, ranges, batch>>

sstVars == <<sst, puts, infos, store>>

vars == <<readerVars, engineVars, sstVars>>

-----------------------------------------------------------------------------
(* Bounds, and the input domains of the local reader.                      *)

MaxTime == 2
ChecksMaxTime == 1
MaxRejects == 1
MaxWrites == 2
MaxRanges == 4
MaxBatches == 1
MaxMutations == 2
MaxRequests == 2
MaxTasks == 4

StoreId == 2
ChannelCap == 1

RegionIds == {1, 2}
StoreIds == {StoreId, StoreId + 1}
PeerIds == {2, 3}
Terms == {1, 2}
Versions == {1, 2}
CallbackIds == {1}
Times == 0..MaxTime
ExpireTimes == 0..(MaxTime + 1)

SeqsUpTo(S, n) == UNION {[1..m -> S] : m \in 0..n}

Some(x) == {x}
None == {}
Unwrap(o) == CHOOSE x \in o : TRUE

CounterNames ==
    {"store_id_mismatch", "peer_id_mismatch", "term_mismatch", "lease_expire",
     "no_region", "no_lease", "epoch", "appiled_term", "channel_full"}

MetricsDefault == [c \in CounterNames |-> 0]

Inc(m, c) == [m EXCEPT ![c] = @ + 1]

TotalRejects(m) ==
    m["store_id_mismatch"] + m["peer_id_mismatch"] + m["term_mismatch"] + m["lease_expire"]
        + m["no_region"] + m["no_lease"] + m["epoch"] + m["appiled_term"] + m["channel_full"]

\* RemoteLease: a view of the leader's lease; expired_time is shared with the
\* leader (an atomic), connected tells whether the leader's Lease still holds it.
RemoteLeases == [term : Terms, expired_time : ExpireTimes, connected : BOOLEAN]

\* RaftCmdRequest, reduced to the header fields the reader looks at.
Requests ==
    [store_id : StoreIds, region_id : RegionIds, peer_id : PeerIds,
     term : Terms, version : Versions, read_quorum : BOOLEAN]

RaftCmd(req, cb) == [kind |-> "RaftCmd", request |-> req, callback |-> cb]

\* ReadDelegate::from_peer: the delegate Task::register and LocalReader::new
\* build from a peer (no lease yet, last_valid_ts zero).
from_peer(region_id, version, peer_id, term, applied_index_term) ==
    [region_id |-> region_id, version |-> version, peer_id |-> peer_id,
     term |-> term, applied_index_term |-> applied_index_term,
     leader_lease |-> None, last_valid_ts |-> 0]

\* A RemoteLease as Lease::maybe_new_remote_lease hands it out.
NewRemoteLease(term, expired_time) ==
    [term |-> term, expired_time |-> expired_time, connected |-> TRUE]

-----------------------------------------------------------------------------
(* util::check_store_id, check_peer_id, check_term, check_region_epoch.    *)

check_store_id(req, store_id) == req.store_id = store_id

check_peer_id(req, peer_id) == req.peer_id = peer_id

check_term(req, term) == req.term = term

\* For a read only the version of the epoch is compared.
check_region_epoch(req, d) == req.version >= d.version

\* RemoteLease::inspect(Some(ts))
LeaseInspect(lease, ts) == IF ts < lease.expired_time THEN "Valid" ELSE "Expired"

-----------------------------------------------------------------------------
(* Inspector (RequestInspector for the local reader).                      *)

\* has_applied_to_current_term answering true whatever the applied term.
has_applied_always(d, m) == [ok |-> TRUE, metrics |-> m]

has_applied_to_current_term(d, m) ==
    IF d.applied_index_term = d.term
    THEN [ok |-> TRUE, metrics |-> m]
    ELSE [ok |-> FALSE, metrics |-> Inc(m, "appiled_term")]

\* inspect_lease without the no_lease counter.
inspect_lease_uncounted(d, m) ==
    IF d.leader_lease # None
    THEN [state |-> "Valid", metrics |-> m]
    ELSE [state |-> "Expired", metrics |-> m]

inspect_lease(d, m) ==
    IF d.leader_lease # None
    THEN [state |-> "Valid", metrics |-> m]
    ELSE [state |-> "Expired", metrics |-> Inc(m, "no_lease")]

\* RequestInspector::inspect for a request of Get/Snap sub-requests.
Inspect(req, d, m) ==
    IF req.read_quorum THEN [policy |-> "ReadIndex", metrics |-> m]
    ELSE LET a == has_applied_to_current_term(d, m) IN
         IF ~a.ok THEN [policy |-> "ReadIndex", metrics |-> a.metrics]
         ELSE LET l == inspect_lease(d, a.metrics) IN
              IF l.state = "Valid"
              THEN [policy |-> "ReadLocal", metrics |-> l.metrics]
              ELSE [policy |-> "ReadIndex", metrics |-> l.metrics]

-----------------------------------------------------------------------------
(* LocalReader::pre_propose_raft_command: Err(e), Ok(None) or Ok(Some).    *)

\* pre_propose_raft_command with the region lookup counting under the wrong
\* counter.
pre_propose_no_region_miscounted(req, ds, m) ==
    IF ~check_store_id(req, StoreId)
    THEN [res |-> "Err", err |-> "StoreNotMatch", metrics |-> Inc(m, "store_id_mismatch")]
    ELSE IF req.region_id \notin DOMAIN ds
    THEN [res |-> "None", err |-> "", metrics |-> Inc(m, "epoch")]
    ELSE [res |-> "Err", err |-> "PeerNotMatch", metrics |-> Inc(m, "peer_id_mismatch")]

\* pre_propose_raft_command looking the region up before checking the
\* store id.
pre_propose_region_first(req, ds, m) ==
    IF req.region_id \notin DOMAIN ds
    THEN [res |-> "None", err |-> "", metrics |-> Inc(m, "no_region")]
    ELSE IF ~check_store_id(req, StoreId)
    THEN [res |-> "Err", err |-> "StoreNotMatch", metrics |-> Inc(m, "store_id_mismatch")]
    ELSE [res |-> "None", err |-> "", metrics |-> Inc(m, "epoch")]

\* pre_propose_raft_command forwarding a read with another peer id.
pre_propose_peer_forwarded(req, ds, m) ==
    IF ~check_store_id(req, StoreId)
    THEN [res |-> "Err", err |-> "StoreNotMatch", metrics |-> Inc(m, "store_id_mismatch")]
    ELSE IF req.region_id \notin DOMAIN ds
    THEN [res |-> "None", err |-> "", metrics |-> Inc(m, "no_region")]
    ELSE [res |-> "None", err |-> "", metrics |-> Inc(m, "peer_id_mismatch")]

\* pre_propose_raft_command counting a term mismatch under epoch.
pre_propose_term_miscounted(req, ds, m) ==
    IF ~check_store_id(req, StoreId)
    THEN [res |-> "Err", err |-> "StoreNotMatch", metrics |-> Inc(m, "store_id_mismatch")]
    ELSE IF req.region_id \notin DOMAIN ds
    THEN [res |-> "None", err |-> "", metrics |-> Inc(m, "no_region")]
    ELSE IF ~check_peer_id(req, ds[req.region_id].peer_id)
    THEN [res |-> "Err", err |-> "PeerNotMatch", metrics |-> Inc(m, "peer_id_mismatch")]
    ELSE IF ~check_term(req, ds[req.region_id].term)
    THEN [res |-> "Err", err |-> "StaleCommand", metrics |-> Inc(m, "epoch")]
    ELSE [res |-> "None", err |-> "", metrics |-> Inc(m, "epoch")]

\* pre_propose_raft_command answering a stale epoch with an error.
pre_propose_epoch_error(req, ds, m) ==
    IF ~check_store_id(req, StoreId)
    THEN [res |-> "Err", err |-> "StoreNotMatch", metrics |-> Inc(m, "store_id_mismatch")]
    ELSE IF req.region_id \notin DOMAIN ds
    THEN [res |-> "None", err |-> "", metrics |-> Inc(m, "no_region")]
    ELSE IF ~check_peer_id(req, ds[req.region_id].peer_id)
    THEN [res |-> "Err", err |-> "PeerNotMatch", metrics |-> Inc(m, "peer_id_mismatch")]
    ELSE IF ~check_term(req, ds[req.region_id].term)
    THEN [res |-> "Err", err |-> "StaleCommand", metrics |-> Inc(m, "term_mismatch")]
    ELSE [res |-> "Err", err |-> "StaleEpoch", metrics |-> Inc(m, "epoch")]

\* pre_propose_raft_command comparing the epoch before the term.
pre_propose_epoch_before_term(req, ds, m) ==
    IF ~check_store_id(req, StoreId)
    THEN [res |-> "Err", err |-> "StoreNotMatch", metrics |-> Inc(m, "store_id_mismatch")]
    ELSE IF req.region_id \notin DOMAIN ds
    THEN [res |-> "None", err |-> "", metrics |-> Inc(m, "no_region")]
    ELSE LET d == ds[req.region_id] IN
         IF ~check_peer_id(req, d.peer_id)
         THEN [res |-> "Err", err |-> "PeerNotMatch", metrics |-> Inc(m, "peer_id_mismatch")]
         ELSE IF ~check_region_epoch(req, d)
         THEN [res |-> "None", err |-> "", metrics |-> Inc(m, "epoch")]
         ELSE IF ~check_term(req, d.term)
         THEN [res |-> "Err", err |-> "StaleCommand", metrics |-> Inc(m, "term_mismatch")]
         ELSE LET i == Inspect(req, d, m) IN
              IF i.policy = "ReadLocal"
              THEN [res |-> "Some", err |-> "", metrics |-> i.metrics]
              ELSE [res |-> "None", err |-> "", metrics |-> i.metrics]

pre_propose_raft_command(req, ds, m) ==
    IF ~check_store_id(req, StoreId)
    THEN [res |-> "Err", err |-> "StoreNotMatch", metrics |-> Inc(m, "store_id_mismatch")]
    ELSE IF req.region_id \notin DOMAIN ds
    THEN [res |-> "None", err |-> "", metrics |-> Inc(m, "no_region")]
    ELSE LET d == ds[req.region_id] IN
         IF ~check_peer_id(req, d.peer_id)
         THEN [res |-> "Err", err |-> "PeerNotMatch", metrics |-> Inc(m, "peer_id_mismatch")]
         ELSE IF ~check_term(req, d.term)
         THEN [res |-> "Err", err |-> "StaleCommand", metrics |-> Inc(m, "term_mismatch")]
         ELSE IF ~check_region_epoch(req, d)
         THEN [res |-> "None", err |-> "", metrics |-> Inc(m, "epoch")]
         ELSE LET i == Inspect(req, d, m) IN
              IF i.policy = "ReadLocal"
              THEN [res |-> "Some", err |-> "", metrics |-> i.metrics]
              ELSE [res |-> "None", err |-> "", metrics |-> i.metrics]

-----------------------------------------------------------------------------
(* Responses.                                                              *)

\* ReadResponse: the header's error and term, and the region of the snapshot
\* (0: no snapshot).
Response(error, term, snap) == [error |-> error, term |-> term, snapshot |-> snap]

\* ReadExecutor::snapshot_time: sampled once, when the snapshot is taken.
SnapshotTime(e) == IF e.snapshot_time = None THEN now ELSE Unwrap(e.snapshot_time)

\* handle_read answering without binding the lease's term into the header.
handle_read_term_unbound(d, e, m) ==
    IF d.leader_lease = None
    THEN [resp |-> None, last_valid_ts |-> d.last_valid_ts, metrics |-> m,
          sampled |-> FALSE, checked |-> FALSE]
    ELSE LET lease == Unwrap(d.leader_lease)
             snapshot_time == SnapshotTime(e)
         IN  IF lease.term # d.term
             THEN [resp |-> None, last_valid_ts |-> d.last_valid_ts,
                   metrics |-> Inc(m, "term_mismatch"),
                   sampled |-> FALSE, checked |-> FALSE]
             ELSE IF d.last_valid_ts = snapshot_time
                     \/ LeaseInspect(lease, snapshot_time) = "Valid"
             THEN [resp |-> Some(Response("", 0, d.region_id)),
                   last_valid_ts |-> snapshot_time, metrics |-> m,
                   sampled |-> TRUE, checked |-> d.last_valid_ts # snapshot_time]
             ELSE [resp |-> None, last_valid_ts |-> d.last_valid_ts,
                   metrics |-> Inc(m, "lease_expire"),
                   sampled |-> TRUE, checked |-> FALSE]

\* handle_read caching the snapshot_time of a failed lease check.
handle_read_caches_expired(d, e, m) ==
    IF d.leader_lease = None
    THEN [resp |-> None, last_valid_ts |-> d.last_valid_ts, metrics |-> m,
          sampled |-> FALSE, checked |-> FALSE]
    ELSE LET lease == Unwrap(d.leader_lease)
             snapshot_time == SnapshotTime(e)
         IN  IF lease.term # d.term
             THEN [resp |-> None, last_valid_ts |-> d.last_valid_ts,
                   metrics |-> Inc(m, "term_mismatch"),
                   sampled |-> FALSE, checked |-> FALSE]
             ELSE IF d.last_valid_ts = snapshot_time
                     \/ LeaseInspect(lease, snapshot_time) = "Valid"
             THEN [resp |-> Some(Response("", lease.term, d.region_id)),
                   last_valid_ts |-> snapshot_time, metrics |-> m,
                   sampled |-> TRUE, checked |-> d.last_valid_ts # snapshot_time]
             ELSE [resp |-> None, last_valid_ts |-> snapshot_time,
                   metrics |-> Inc(m, "lease_expire"),
                   sampled |-> TRUE, checked |-> FALSE]

\* handle_read serving under any lease of the delegate's term, without
\* inspecting it.
handle_read_skips_inspect(d, e, m) ==
    IF d.leader_lease = None
    THEN [resp |-> None, last_valid_ts |-> d.last_valid_ts, metrics |-> m,
          sampled |-> FALSE, checked |-> FALSE]
    ELSE IF Unwrap(d.leader_lease).term # d.term
    THEN [resp |-> None, last_valid_ts |-> d.last_valid_ts,
          metrics |-> Inc(m, "term_mismatch"), sampled |-> FALSE, checked |-> FALSE]
    ELSE [resp |-> Some(Response("", d.term, d.region_id)),
          last_valid_ts |-> SnapshotTime(e), metrics |-> m,
          sampled |-> TRUE, checked |-> d.last_valid_ts # SnapshotTime(e)]

\* handle_read taking the quick path before it compares the lease's term.
handle_read_quick_path_first(d, e, m) ==
    IF d.leader_lease = None
    THEN [resp |-> None, last_valid_ts |-> d.last_valid_ts, metrics |-> m,
          sampled |-> FALSE, checked |-> FALSE]
    ELSE LET lease == Unwrap(d.leader_lease)
             snapshot_time == SnapshotTime(e)
         IN  IF d.last_valid_ts = snapshot_time
             THEN [resp |-> Some(Response("", lease.term, d.region_id)),
                   last_valid_ts |-> snapshot_time, metrics |-> m,
                   sampled |-> TRUE, checked |-> FALSE]
             ELSE IF lease.term # d.term
             THEN [resp |-> None, last_valid_ts |-> d.last_valid_ts,
                   metrics |-> Inc(m, "term_mismatch"),
                   sampled |-> FALSE, checked |-> FALSE]
             ELSE IF LeaseInspect(lease, snapshot_time) = "Valid"
             THEN [resp |-> Some(Response("", lease.term, d.region_id)),
                   last_valid_ts |-> snapshot_time, metrics |-> m,
                   sampled |-> TRUE, checked |-> TRUE]
             ELSE [resp |-> None, last_valid_ts |-> d.last_valid_ts,
                   metrics |-> Inc(m, "lease_expire"),
                   sampled |-> TRUE, checked |-> FALSE]

\* ReadDelegate::handle_read
handle_read(d, e, m) ==
    IF d.leader_lease = None
    THEN [resp |-> None, last_valid_ts |-> d.last_valid_ts, metrics |-> m,
          sampled |-> FALSE, checked |-> FALSE]
    ELSE LET lease == Unwrap(d.leader_lease)
             term == lease.term
         IN  IF term = d.term
             THEN LET snapshot_time == SnapshotTime(e) IN
                  IF d.last_valid_ts = snapshot_time
                     \/ LeaseInspect(lease, snapshot_time) = "Valid"
                  THEN [resp |-> Some(Response("", term, d.region_id)),
                        last_valid_ts |-> snapshot_time, metrics |-> m,
                        sampled |-> TRUE,
                        checked |-> d.last_valid_ts # snapshot_time]
                  ELSE [resp |-> None, last_valid_ts |-> d.last_valid_ts,
                        metrics |-> Inc(m, "lease_expire"),
                        sampled |-> TRUE, checked |-> FALSE]
             ELSE [resp |-> None, last_valid_ts |-> d.last_valid_ts,
                   metrics |-> Inc(m, "term_mismatch"),
                   sampled |-> FALSE, checked |-> FALSE]

\* handle_busy: the response synthesized when the channel is full.
BusyResponse == Response("ServerIsBusy", 0, 0)

\* The error response of propose_raft_command: the delegate's term is bound
\* into it when the region has a delegate.
ErrorResponse(err, req, ds) ==
    Response(err, IF req.region_id \in DOMAIN ds THEN ds[req.region_id].term ELSE 0, 0)

-----------------------------------------------------------------------------
(* The state after construction.                                           *)

\* LocalReader::new: one delegate per peer of the store (peers: region id ->
\* the delegate built from the peer). fixed: whether the specification
\* fixes the task vectors at the entry of run_batch.
LocalReaderNew(peers, fixed) ==
    /\ delegates = peers
    /\ metrics = MetricsDefault
    /\ ch = << >>
    /\ ch_closed = FALSE
    /\ panicked = FALSE
    /\ now = 0
    /\ exec = [active |-> FALSE, snapshot_time |-> None]
    /\ invoked = << >>
    /\ inspected = {}
    /\ renewed = {}
    /\ offered = None
    /\ scheduled = None
    /\ drained = [on |-> fixed, start |-> peers, tasks |-> << >>, pos |-> 0]

\* The reader of the tests: a store without peers.
ReaderInit == LocalReaderNew(<< >>, FALSE)

\* The tasks of a vector handed to run_batch.
RegisterTask(d) == [kind |-> "Register", delegate |-> d]

UpdateTask(region_id, progress) ==
    [kind |-> "Update", region_id |-> region_id, progress |-> progress]

DestroyTask(region_id) == [kind |-> "Destroy", region_id |-> region_id]

ReadTask(msg) == [kind |-> "Read", msg |-> msg]

\* for task in tasks.drain(..): with the vectors fixed at entry, task is the
\* first one not processed yet; otherwise tasks are taken as they come.
\* The drain taking the tasks from the back of the vector.
is_next_task_from_back(task) ==
    drained.on => (/\ drained.pos < Len(drained.tasks)
                   /\ drained.tasks[Len(drained.tasks) - drained.pos] = task)

IsNextTask(task) ==
    drained.on => (drained.pos < Len(drained.tasks) /\ drained.tasks[drained.pos + 1] = task)

\* The drain leaving the task it has handed out in the vector.
processed_not_removed == drained

Processed == IF drained.on THEN [drained EXCEPT !.pos = @ + 1] ELSE drained

AllProcessed == drained.on => drained.pos = Len(drained.tasks)

\* run_batch: entry, a new ReadExecutor.
BeginBatch(limit) ==
    /\ ~drained.on
    /\ ~panicked /\ ~exec.active /\ now < limit
    /\ now' = now + 1
    /\ exec' = [active |-> TRUE, snapshot_time |-> None]
    /\ inspected' = {}
    /\ invoked' = << >>
    /\ UNCHANGED <<delegates, metrics, ch, ch_closed, panicked,
                 renewed, offered, scheduled, drained, engineVars, sstVars>>

\* run_batch: the task vector is drained.
EndBatch ==
    /\ AllProcessed
    /\ ~panicked /\ exec.active
    /\ exec' = [active |-> FALSE, snapshot_time |-> None]
    /\ UNCHANGED <<delegates, metrics, ch, ch_closed, panicked, now, invoked, inspected,
                 renewed, offered, scheduled, drained, engineVars, sstVars>>

\* run_batch(tasks): entry with a vector of drained tasks, each one of Tasks.
RunBatch(Tasks, limit) ==
    /\ ~panicked /\ ~exec.active /\ now < limit
    /\ drained.on
    /\ now' = now + 1
    /\ exec' = [active |-> TRUE, snapshot_time |-> None]
    /\ inspected' = {}
    /\ invoked' = << >>
    /\ Len(drained.tasks) <= MaxTasks
    /\ \E tasks \in SeqsUpTo(Tasks, MaxTasks - Len(drained.tasks)) :
          drained' = [drained EXCEPT !.tasks = @ \o tasks]
    /\ UNCHANGED <<delegates, metrics, ch, ch_closed, panicked,
                 renewed, offered, scheduled, engineVars, sstVars>>

\* HashMap::insert keeping the value of a key that is present.
put_if_absent(f, k, v) ==
    IF k \in DOMAIN f THEN f ELSE [x \in (DOMAIN f) \cup {k} |-> IF x = k THEN v ELSE f[x]]

Put(f, k, v) == [x \in (DOMAIN f) \cup {k} |-> IF x = k THEN v ELSE f[x]]

Remove(f, k) == [x \in (DOMAIN f) \ {k} |-> f[x]]

\* Task::Register(delegate)
TaskRegister(d) ==
    /\ ~panicked /\ exec.active
    /\ IsNextTask(RegisterTask(d))
    /\ drained' = Processed
    /\ delegates' = Put(delegates, d.region_id, d)
    /\ inspected' = inspected \ {d.region_id}
    /\ renewed' = {x \in renewed : x.region # d.region_id}
    /\ invoked' = << >>
    /\ UNCHANGED <<metrics, ch, ch_closed, panicked, now, exec,
                 offered, scheduled, engineVars, sstVars>>

\* update forgetting last_valid_ts when it installs a lease.
update_resets_last_valid_ts(d, progress) ==
    CASE progress.kind = "Region" -> [d EXCEPT !.version = progress.value]
      [] progress.kind = "Term" -> [d EXCEPT !.term = progress.value]
      [] progress.kind = "AppliedIndexTerm" -> [d EXCEPT !.applied_index_term = progress.value]
      [] progress.kind = "LeaderLease" ->
            [d EXCEPT !.leader_lease = Some(progress.value), !.last_valid_ts = 0]

\* update taking a new term as applied.
update_term_sets_applied(d, progress) ==
    CASE progress.kind = "Region" -> [d EXCEPT !.version = progress.value]
      [] progress.kind = "Term" ->
            [d EXCEPT !.term = progress.value, !.applied_index_term = progress.value]
      [] progress.kind = "AppliedIndexTerm" -> [d EXCEPT !.applied_index_term = progress.value]
      [] progress.kind = "LeaderLease" -> [d EXCEPT !.leader_lease = Some(progress.value)]

\* ReadDelegate::update
update(d, progress) ==
    CASE progress.kind = "Region" -> [d EXCEPT !.version = progress.value]
      [] progress.kind = "Term" -> [d EXCEPT !.term = progress.value]
      [] progress.kind = "AppliedIndexTerm" -> [d EXCEPT !.applied_index_term = progress.value]
      [] progress.kind = "LeaderLease" -> [d EXCEPT !.leader_lease = Some(progress.value)]

\* Progress: the tagged union carried by Task::Update.
Progress(kind, value) == [kind |-> kind, value |-> value]

\* Task::Update creating a delegate for a region that has none.
task_update_or_insert(region_id, progress) ==
    /\ ~panicked /\ exec.active
    /\ IsNextTask(UpdateTask(region_id, progress))
    /\ drained' = Processed
    /\ delegates' = IF region_id \in DOMAIN delegates
                    THEN [delegates EXCEPT ![region_id] = update(@, progress)]
                    ELSE Put(delegates, region_id,
                             update(from_peer(region_id, 1, 2, 1, 1), progress))
    /\ inspected' = IF progress.kind = "LeaderLease"
                    THEN inspected \ {region_id} ELSE inspected
    /\ renewed' = IF progress.kind = "LeaderLease"
                  THEN {x \in renewed : x.region # region_id} ELSE renewed
    /\ invoked' = << >>
    /\ UNCHANGED <<metrics, ch, ch_closed, panicked, now, exec,
                 offered, scheduled, engineVars, sstVars>>

\* Task::Update((region_id, progress))
TaskUpdate(region_id, progress) ==
    /\ ~panicked /\ exec.active
    /\ IsNextTask(UpdateTask(region_id, progress))
    /\ drained' = Processed
    /\ delegates' = IF region_id \in DOMAIN delegates
                    THEN [delegates EXCEPT ![region_id] = update(@, progress)]
                    ELSE delegates
    /\ inspected' = IF progress.kind = "LeaderLease"
                    THEN inspected \ {region_id} ELSE inspected
    /\ renewed' = IF progress.kind = "LeaderLease"
                  THEN {x \in renewed : x.region # region_id} ELSE renewed
    /\ invoked' = << >>
    /\ UNCHANGED <<metrics, ch, ch_closed, panicked, now, exec,
                 offered, scheduled, engineVars, sstVars>>

\* Task::Destroy(region_id)
TaskDestroy(region_id) ==
    /\ ~panicked /\ exec.active
    /\ IsNextTask(DestroyTask(region_id))
    /\ drained' = Processed
    /\ delegates' = Remove(delegates, region_id)
    /\ inspected' = inspected \ {region_id}
    /\ renewed' = {x \in renewed : x.region # region_id}
    /\ invoked' = << >>
    /\ UNCHANGED <<metrics, ch, ch_closed, panicked, now, exec,
                 offered, scheduled, engineVars, sstVars>>

\* redirect dropping the message of a full channel without an answer.
redirect_drops_when_full(msg, m, inv) ==
    IF ch_closed
    THEN [ch |-> ch, metrics |-> m, invoked |-> inv, panicked |-> TRUE]
    ELSE IF Len(ch) >= ChannelCap
    THEN [ch |-> ch, metrics |-> Inc(m, "channel_full"), invoked |-> inv, panicked |-> FALSE]
    ELSE [ch |-> Append(ch, msg), metrics |-> m, invoked |-> inv, panicked |-> FALSE]

\* redirect answering ServerIsBusy for every failed send.
redirect_busy_on_any_error(msg, m, inv) ==
    IF ch_closed \/ Len(ch) >= ChannelCap
    THEN [ch |-> ch, metrics |-> Inc(m, "channel_full"),
          invoked |-> Append(inv, [callback |-> msg.callback, resp |-> BusyResponse]),
          panicked |-> FALSE]
    ELSE [ch |-> Append(ch, msg), metrics |-> m, invoked |-> inv, panicked |-> FALSE]

\* redirect answering ServerIsBusy for a message it has enqueued as well.
redirect_enqueues_and_answers(msg, m, inv) ==
    IF ch_closed
    THEN [ch |-> ch, metrics |-> m, invoked |-> inv, panicked |-> TRUE]
    ELSE IF Len(ch) >= ChannelCap
    THEN [ch |-> ch, metrics |-> Inc(m, "channel_full"),
          invoked |-> Append(inv, [callback |-> msg.callback, resp |-> BusyResponse]),
          panicked |-> FALSE]
    ELSE [ch |-> Append(ch, msg), metrics |-> m,
          invoked |-> Append(inv, [callback |-> msg.callback, resp |-> BusyResponse]),
          panicked |-> FALSE]

\* LocalReader::redirect, as the effect on (ch, metrics, invoked, panicked).
Redirect(msg, m, inv) ==
    IF ch_closed
    THEN [ch |-> ch, metrics |-> m, invoked |-> inv, panicked |-> TRUE]
    ELSE IF Len(ch) >= ChannelCap
    THEN [ch |-> ch, metrics |-> Inc(m, "channel_full"),
          invoked |-> Append(inv, [callback |-> msg.callback, resp |-> BusyResponse]),
          panicked |-> FALSE]
    ELSE [ch |-> Append(ch, msg), metrics |-> m, invoked |-> inv, panicked |-> FALSE]

\* Task::Read(StoreMsg::RaftCmd): propose_raft_command
ReadRaftCmd(req, cb) ==
    /\ ~panicked /\ exec.active
    /\ IsNextTask(ReadTask(RaftCmd(req, cb)))
    /\ drained' = Processed
    /\ UNCHANGED <<renewed, offered, scheduled, engineVars, sstVars>>
    /\ LET p == pre_propose_raft_command(req, delegates, metrics) IN
       IF p.res = "Err"
       THEN /\ invoked' = <<[callback |-> cb, resp |-> ErrorResponse(p.err, req, delegates)]>>
            /\ metrics' = p.metrics
            /\ UNCHANGED <<delegates, ch, ch_closed, panicked, now, exec, inspected>>
       ELSE LET d == delegates[req.region_id]
                h == IF p.res = "Some"
                     THEN handle_read(d, exec, p.metrics)
                     ELSE [resp |-> None, last_valid_ts |-> 0, metrics |-> p.metrics,
                           sampled |-> FALSE, checked |-> FALSE]
            IN  /\ delegates' = IF p.res = "Some"
                                THEN [delegates EXCEPT ![req.region_id].last_valid_ts =
                                          h.last_valid_ts]
                                ELSE delegates
                /\ exec' = IF h.sampled
                           THEN [exec EXCEPT !.snapshot_time = Some(SnapshotTime(exec))]
                           ELSE exec
                /\ inspected' = IF h.checked THEN inspected \cup {req.region_id}
                                ELSE inspected
                /\ IF h.resp # None
                   THEN /\ invoked' = <<[callback |-> cb, resp |-> Unwrap(h.resp)]>>
                        /\ metrics' = h.metrics
                        /\ UNCHANGED <<ch, panicked>>
                   ELSE LET r == Redirect(RaftCmd(req, cb), h.metrics, << >>) IN
                        /\ ch' = r.ch
                        /\ metrics' = r.metrics
                        /\ invoked' = r.invoked
                        /\ panicked' = r.panicked
                /\ UNCHANGED <<ch_closed, now>>

\* The same with the rejections counted so far capped, for the
\* specifications that do not bound the number of reads otherwise.
TaskReadRaftCmd(req, cb) ==
    /\ TotalRejects(metrics) < MaxRejects
    /\ ReadRaftCmd(req, cb)

\* One turn of the loop of propose_batch_raft_snapshot_command: the outcome
\* of req is pushed onto ret; nothing is sent to the channel.
BatchItem(acc, req) ==
    LET p == pre_propose_raft_command(req, acc.delegates, acc.metrics) IN
    IF p.res = "Some"
    THEN LET d == acc.delegates[req.region_id]
             h == handle_read(d, acc.exec, p.metrics)
         IN  [ret |-> Append(acc.ret, h.resp),
              delegates |-> [acc.delegates EXCEPT ![req.region_id].last_valid_ts =
                                h.last_valid_ts],
              exec |-> IF h.sampled
                       THEN [acc.exec EXCEPT !.snapshot_time = Some(SnapshotTime(acc.exec))]
                       ELSE acc.exec,
              metrics |-> h.metrics,
              inspected |-> IF h.checked THEN acc.inspected \cup {req.region_id}
                            ELSE acc.inspected]
    ELSE IF p.res = "None"
    THEN [acc EXCEPT !.ret = Append(@, None), !.metrics = p.metrics]
    ELSE [acc EXCEPT !.ret = Append(@, Some(ErrorResponse(p.err, req, acc.delegates))),
                     !.metrics = p.metrics]

\* for req in batch { ... } (cmds is the batch)
RECURSIVE BatchLoop(_, _)
BatchLoop(cmds, acc) ==
    IF cmds = << >> THEN acc
    ELSE BatchLoop(Tail(cmds), BatchItem(acc, Head(cmds)))

\* propose_batch_raft_snapshot_command leaving the requests it cannot
\* serve out of the list.
propose_batch_skips_none(cmds, ds, e, m, ins) ==
    LET r == BatchLoop(cmds, [ret |-> << >>, delegates |-> ds, exec |-> e, metrics |-> m,
                               inspected |-> ins])
    IN  [r EXCEPT !.ret = SelectSeq(r.ret, LAMBDA x : x # None)]

\* LocalReader::propose_batch_raft_snapshot_command: ret is the list handed
\* to on_finished.
propose_batch_raft_snapshot_command(cmds, ds, e, m, ins) ==
    BatchLoop(cmds, [ret |-> << >>, delegates |-> ds, exec |-> e, metrics |-> m,
                      inspected |-> ins])

\* StoreMsg::BatchRaftSnapCmds
BatchRaftSnapCmds(cmds, on_finished) ==
    [kind |-> "BatchRaftSnapCmds", batch |-> cmds, on_finished |-> on_finished]

\* A sender schedules Task::read(msg) for a batch message.
ScheduleBatch(msg) ==
    /\ ~panicked /\ scheduled = None
    /\ scheduled' = Some(msg)
    /\ UNCHANGED <<delegates, metrics, ch, ch_closed, panicked, now, exec, invoked, inspected,
                 renewed, offered, drained, engineVars, sstVars>>

\* Task::Read(StoreMsg::BatchRaftSnapCmds): run_batch takes the scheduled
\* batch message.
TaskReadBatchRaftSnapCmds ==
    /\ ~panicked /\ exec.active /\ scheduled # None
    /\ TotalRejects(metrics) < MaxRejects
    /\ LET msg == Unwrap(scheduled)
           r == propose_batch_raft_snapshot_command(msg.batch, delegates, exec, metrics,
                                                    inspected)
       IN  /\ delegates' = r.delegates
           /\ exec' = r.exec
           /\ metrics' = r.metrics
           /\ inspected' = r.inspected
           /\ invoked' = <<[callback |-> msg.on_finished, resps |-> r.ret]>>
    /\ scheduled' = None
    /\ UNCHANGED <<ch, ch_closed, panicked, now, renewed, offered, drained, engineVars, sstVars>>

\* The raftstore thread takes a message from the channel.
Recv ==
    /\ ~panicked /\ ch # << >>
    /\ ch' = Tail(ch)
    /\ UNCHANGED <<delegates, metrics, ch_closed, panicked, now, exec, invoked, inspected,
                 renewed, offered, scheduled, drained, engineVars, sstVars>>

\* The raftstore thread goes away and drops the receiving end: from now on
\* ch.send fails with an error other than Full.
Disconnect ==
    /\ ~panicked /\ ~ch_closed
    /\ ch_closed' = TRUE
    /\ UNCHANGED <<delegates, metrics, ch, panicked, now, exec, invoked, inspected,
                 renewed, offered, scheduled, drained, engineVars, sstVars>>

\* ReadMetrics::flush, from on_timeout between two batches.
Flush ==
    /\ ~panicked /\ ~exec.active
    /\ metrics # MetricsDefault
    /\ metrics' = MetricsDefault
    /\ UNCHANGED <<delegates, ch, ch_closed, panicked, now, exec, invoked, inspected,
                 renewed, offered, scheduled, drained, engineVars, sstVars>>

\* The leader renews its lease: the RemoteLease it still holds sees the new
\* bound; a RemoteLease the leader has let go (Lease::expire) sees nothing.
LeaderRenew(region_id, bound) ==
    /\ ~panicked
    /\ region_id \in DOMAIN delegates
    /\ delegates[region_id].leader_lease # None
    /\ LET l == Unwrap(delegates[region_id].leader_lease) IN
       /\ bound > l.expired_time
       /\ delegates' = IF l.connected
                        THEN [delegates EXCEPT ![region_id].leader_lease =
                                 Some([l EXCEPT !.expired_time = bound])]
                        ELSE delegates
       /\ renewed' = IF l.connected THEN renewed
                     ELSE renewed \cup {[region |-> region_id, at |-> now]}
    /\ UNCHANGED <<metrics, ch, ch_closed, panicked, now, exec, invoked, inspected,
                 offered, scheduled, drained, engineVars, sstVars>>

\* The leader expires its lease: the RemoteLease is expired and let go.
LeaderExpire(region_id) ==
    /\ ~panicked
    /\ region_id \in DOMAIN delegates
    /\ delegates[region_id].leader_lease # None
    /\ LET l == Unwrap(delegates[region_id].leader_lease) IN
       /\ l.connected
       /\ delegates' = [delegates EXCEPT ![region_id].leader_lease =
                            Some([l EXCEPT !.expired_time = 0, !.connected = FALSE])]
    /\ UNCHANGED <<metrics, ch, ch_closed, panicked, now, exec, invoked, inspected,
                 renewed, offered, scheduled, drained, engineVars, sstVars>>

\* The reader's steps, with the tasks' inputs drawn from the given sets.
ReaderNext(Dels, Upds, Reqs, Bounds, limit) ==
    \/ BeginBatch(limit)
    \/ EndBatch
    \/ \E d \in Dels : TaskRegister(d)
    \/ \E u \in Upds : TaskUpdate(u[1], u[2])
    \/ \E r \in RegionIds : TaskDestroy(r)
    \/ \E req \in Reqs, cb \in CallbackIds : TaskReadRaftCmd(req, cb)
    \/ Recv
    \/ Flush
    \/ \E r \in RegionIds, b \in Bounds : LeaderRenew(r, b)
    \/ \E r \in RegionIds : LeaderExpire(r)


-----------------------------------------------------------------------------
(* Byte strings. A key is a sequence of bytes. A value is vec![byte; len],  *)
(* kept as the pair of its byte and its length so that a value of 4 MiB is  *)
(* one small record.                                                        *)

Vec(byte, len) == [byte |-> byte, len |-> len]

\* The bytes of a value.
Expand(v) == [i \in 1..v.len |-> v.byte]

\* The order of keys: bytewise, a proper prefix first (the default comparator).
RECURSIVE KeyLess(_, _)
KeyLess(a, b) ==
    IF b = << >> THEN FALSE
    ELSE IF a = << >> THEN TRUE
    ELSE IF a[1] # b[1] THEN a[1] < b[1]
    ELSE KeyLess(Tail(a), Tail(b))

\* An ordered map (BTreeMap, a sorted table) is a sequence of <<key, value>>
\* pairs in ascending key order, without repeated keys.
MapInsert(m, k, v) ==
    SelectSeq(m, LAMBDA e : KeyLess(e[1], k)) \o << <<k, v>> >>
        \o SelectSeq(m, LAMBDA e : KeyLess(k, e[1]))

\* The extension of a plain vector: the entries appended in arrival order.
VecExtend(m, entries) == m \o entries

RECURSIVE MapExtend(_, _)
MapExtend(m, entries) ==
    IF entries = << >> THEN m
    ELSE MapExtend(MapInsert(m, entries[1][1], entries[1][2]), Tail(entries))

MapKeys(m) == {m[i][1] : i \in 1..Len(m)}

MapGet(m, k) ==
    IF k \in MapKeys(m)
    THEN Some((CHOOSE e \in {m[i] : i \in 1..Len(m)} : e[1] = k)[2])
    ELSE None

-----------------------------------------------------------------------------
(* The engine's LSM. The memtable is a vector of writes in arrival order;   *)
(* a flush turns it into one table, sorted by key, the newest write of a    *)
(* key winning. Nothing is compacted (auto compaction is disabled).         *)

EmptyDb == [mem |-> << >>, tables |-> << >>]

DbPut(d, k, v) == [d EXCEPT !.mem = Append(@, <<k, v>>)]

\* RawBatch::put of each staged write in order, then write_without_wal.
DbWrite(d, wb) == [d EXCEPT !.mem = @ \o wb]

DbFlush(d) ==
    IF d.mem = << >> THEN d
    ELSE [mem |-> << >>, tables |-> Append(d.tables, MapExtend(<< >>, d.mem))]

\* The newest write of key k in a sequence of writes.
RECURSIVE LastWrite(_, _)
LastWrite(writes, k) ==
    IF writes = << >> THEN None
    ELSE IF writes[Len(writes)][1] = k THEN Some(writes[Len(writes)][2])
    ELSE LastWrite(SubSeq(writes, 1, Len(writes) - 1), k)

\* DB::get: the memtable first, then the tables from the newest to the oldest.
RECURSIVE TablesGet(_, _)
TablesGet(tables, k) ==
    IF tables = << >> THEN None
    ELSE LET r == MapGet(tables[Len(tables)], k) IN
         IF r # None THEN r ELSE TablesGet(SubSeq(tables, 1, Len(tables) - 1), k)

DbGet(d, k) ==
    LET r == LastWrite(d.mem, k) IN IF r # None THEN r ELSE TablesGet(d.tables, k)

-----------------------------------------------------------------------------
(* Size properties: the collector every flushed table runs, and the merge   *)
(* of get_size_properties.                                                  *)

SIZE_INDEX_DISTANCE == 4 * 1024 * 1024

IndexHandle(size, offset) == [size |-> size, offset |-> offset]

SizePropertiesDefault == [total_size |-> 0, index_handles |-> << >>]

CollectorNew ==
    [props |-> SizePropertiesDefault, last_key |-> << >>, index_handle |-> IndexHandle(0, 0)]

\* SizePropertiesCollector::add: a handle is recorded at the table's first
\* key and whenever the bytes since the last handle reach the distance.
CollectorAdd(c, key, value) ==
    LET size == Len(key) + value.len
        h == IndexHandle(c.index_handle.size + size, c.index_handle.offset + size)
    IN  IF c.last_key = << >> \/ h.size >= SIZE_INDEX_DISTANCE
        THEN [props |-> [c.props EXCEPT !.index_handles = MapInsert(@, key, h)],
              last_key |-> key,
              index_handle |-> IndexHandle(0, h.offset)]
        ELSE [c EXCEPT !.last_key = key, !.index_handle = h]

\* SizePropertiesCollector::finish: the bytes after the last handle get a
\* handle at the table's last key.
CollectorFinish(c) ==
    [total_size |-> c.index_handle.offset,
     index_handles |-> IF c.index_handle.size > 0
                       THEN MapInsert(c.props.index_handles, c.last_key, c.index_handle)
                       ELSE c.props.index_handles]

RECURSIVE CollectorRun(_, _)
CollectorRun(c, entries) ==
    IF entries = << >> THEN c
    ELSE CollectorRun(CollectorAdd(c, entries[1][1], entries[1][2]), Tail(entries))

\* The user-collected properties of one table.
TableProperties(table) == CollectorFinish(CollectorRun(CollectorNew, table))

\* Engine::get_size_properties over the tables in the order the collection
\* enumerates them.
\* The merge keeping the total_size of the table enumerated last.
RECURSIVE merge_properties_last_total(_, _)
merge_properties_last_total(res, tables) ==
    IF tables = << >> THEN res
    ELSE LET p == TableProperties(tables[1]) IN
         merge_properties_last_total(
             [total_size |-> p.total_size,
              index_handles |-> MapExtend(res.index_handles, p.index_handles)],
             Tail(tables))

RECURSIVE MergeProperties(_, _)
MergeProperties(res, tables) ==
    IF tables = << >> THEN res
    ELSE LET p == TableProperties(tables[1]) IN
         MergeProperties([total_size |-> res.total_size + p.total_size,
                          index_handles |-> MapExtend(res.index_handles, p.index_handles)],
                         Tail(tables))

Reverse(s) == [i \in 1..Len(s) |-> s[Len(s) + 1 - i]]

\* The collection of get_properties_of_all_tables has no order the engine
\* fixes: the tables are taken oldest first or newest first.
get_size_properties(d) ==
    {MergeProperties(SizePropertiesDefault, d.tables),
     MergeProperties(SizePropertiesDefault, Reverse(d.tables))}

-----------------------------------------------------------------------------
(* The range planner.                                                       *)

RANGE_MIN == << >>

\* The end of the key space: above every key (a key holds bytes, 0..255).
RANGE_MAX == <<256>>

RangeInfo(start, end, size) == [start |-> start, end |-> end, size |-> size]

Max(a, b) == IF a >= b THEN a ELSE b

\* The loop of get_approximate_ranges from handle i on.
RECURSIVE RangesFrom(_, _, _, _, _, _)
RangesFrom(handles, i, size0, start, range_size, out) ==
    IF i > Len(handles) THEN out
    ELSE LET size == size0 + handles[i][2].size
             end == IF i = Len(handles) THEN RANGE_MAX ELSE handles[i][1]
         IN  IF size >= range_size \/ i = Len(handles)
             THEN RangesFrom(handles, i + 1, 0, end, range_size,
                             Append(out, RangeInfo(start, end, size)))
             ELSE RangesFrom(handles, i + 1, size, start, range_size, out)

RangeSize(total_size, max_ranges, min_range_size) ==
    Max((total_size + max_ranges - 1) \div max_ranges, min_range_size)

-----------------------------------------------------------------------------
(* Keys. Key::from_raw encodes a raw key in the memcomparable format        *)
(* (groups of ENC_GROUP_SIZE bytes, each followed by a marker byte telling  *)
(* how many of them are padding); append_ts appends the timestamp as eight  *)
(* big-endian bytes, bit-inverted so that a newer version sorts first.      *)

ENC_GROUP_SIZE == 8
ENC_MARKER == 255
U64_SIZE == 8
DATA_PREFIX == 122

Zeros(n) == [i \in 1..n |-> 0]

\* codec::bytes::encode_bytes
RECURSIVE encode_bytes(_)
encode_bytes(raw) ==
    IF Len(raw) >= ENC_GROUP_SIZE
    THEN SubSeq(raw, 1, ENC_GROUP_SIZE) \o <<ENC_MARKER>>
             \o encode_bytes(SubSeq(raw, ENC_GROUP_SIZE + 1, Len(raw)))
    ELSE raw \o Zeros(ENC_GROUP_SIZE - Len(raw))
             \o <<ENC_MARKER - (ENC_GROUP_SIZE - Len(raw))>>

\* The n low bytes of x, most significant first.
RECURSIVE BigEndian(_, _)
BigEndian(x, n) == IF n = 0 THEN << >> ELSE Append(BigEndian(x \div 256, n - 1), x % 256)

\* codec::number::encode_u64_desc
encode_u64_desc(ts) == [i \in 1..U64_SIZE |-> 255 - BigEndian(ts, U64_SIZE)[i]]

\* codec::number::decode_u64_desc
RECURSIVE decode_u64_desc(_)
decode_u64_desc(bytes) ==
    IF bytes = << >> THEN 0
    ELSE decode_u64_desc(SubSeq(bytes, 1, Len(bytes) - 1)) * 256 + (255 - bytes[Len(bytes)])

\* Key::from_raw
from_raw(raw) == encode_bytes(raw)

\* Key::append_ts
append_ts(key, ts) == key \o encode_u64_desc(ts)

\* Key::split_on_ts_for: the key without its timestamp, and the timestamp;
\* an error for a key too short to hold one.
split_on_ts_for(key) ==
    IF Len(key) < U64_SIZE
    THEN [ok |-> FALSE, key |-> << >>, ts |-> 0]
    ELSE [ok |-> TRUE,
          key |-> SubSeq(key, 1, Len(key) - U64_SIZE),
          ts |-> decode_u64_desc(SubSeq(key, Len(key) - U64_SIZE + 1, Len(key)))]

\* keys::data_key
data_key(key) == <<DATA_PREFIX>> \o key

\* keys::origin_key
origin_key(key) == IF key # << >> /\ key[1] = DATA_PREFIX THEN Tail(key) ELSE key

-----------------------------------------------------------------------------
(* Commit records. A record of the write family is Write::to_bytes of       *)
(* Write::new(write_type, start_ts, short_value).                           *)

SHORT_VALUE_MAX_LEN == 64
WRITE_TYPE_PUT == 80
SHORT_VALUE_PREFIX == 118

\* storage::is_short_value
is_short_value(value) == value.len <= SHORT_VALUE_MAX_LEN

\* Write::new
WriteNew(write_type, start_ts, short_value) ==
    [write_type |-> write_type, start_ts |-> start_ts, short_value |-> short_value]

\* codec::number::encode_var_u64
RECURSIVE encode_var_u64(_)
encode_var_u64(x) ==
    IF x < 128 THEN <<x>> ELSE <<(x % 128) + 128>> \o encode_var_u64(x \div 128)

\* codec::number::decode_var_u64: the number and the bytes after it.
RECURSIVE decode_var_u64(_)
decode_var_u64(bytes) ==
    IF bytes[1] < 128 THEN [value |-> bytes[1], rest |-> Tail(bytes)]
    ELSE LET r == decode_var_u64(Tail(bytes)) IN
         [value |-> (bytes[1] - 128) + 128 * r.value, rest |-> r.rest]

\* Write::to_bytes
to_bytes(w) ==
    <<w.write_type>> \o encode_var_u64(w.start_ts)
        \o (IF w.short_value = None THEN << >>
            ELSE <<SHORT_VALUE_PREFIX, Len(Unwrap(w.short_value))>> \o Unwrap(w.short_value))

\* Write::parse
WriteParse(bytes) ==
    LET n == decode_var_u64(Tail(bytes)) IN
    WriteNew(bytes[1], n.value,
             IF n.rest = << >> THEN None
             ELSE Some(SubSeq(n.rest, 3, 2 + n.rest[2])))

-----------------------------------------------------------------------------
(* The SST writer.                                                          *)

\* An SstFileWriter: the entries added so far.
SstFileNew == [entries |-> << >>]

\* SstFileWriter::put: a key is accepted only above the last one added.
SstFilePut(f, k, v) ==
    IF f.entries # << >> /\ ~KeyLess(f.entries[Len(f.entries)][1], k)
    THEN [ok |-> FALSE, file |-> f]
    ELSE [ok |-> TRUE, file |-> [entries |-> Append(f.entries, <<k, v>>)]]

\* SSTWriter::new
SSTWriterNew ==
    [default |-> SstFileNew, default_entries |-> 0, write |-> SstFileNew, write_entries |-> 0]

\* SSTWriter::put with the raw value of a short value written to the default
\* family as well.
put_short_in_default_too(w, key, value) ==
    LET k == data_key(key)
        s == split_on_ts_for(key)
        rw == SstFilePut(w.write, k,
                         to_bytes(WriteNew(WRITE_TYPE_PUT, s.ts,
                                           IF is_short_value(value) THEN Some(Expand(value))
                                           ELSE None)))
        rd == SstFilePut(w.default, k, value)
    IN  IF ~s.ok \/ ~rw.ok \/ ~rd.ok THEN [ok |-> FALSE, w |-> w]
        ELSE [ok |-> TRUE,
              w |-> [default |-> rd.file, default_entries |-> w.default_entries + 1,
                     write |-> rw.file, write_entries |-> w.write_entries + 1]]

\* SSTWriter::put with the raw value of a long value left out of the default
\* family.
put_long_not_in_default(w, key, value) ==
    LET k == data_key(key)
        s == split_on_ts_for(key)
        rw == SstFilePut(w.write, k,
                         to_bytes(WriteNew(WRITE_TYPE_PUT, s.ts,
                                           IF is_short_value(value) THEN Some(Expand(value))
                                           ELSE None)))
    IN  IF ~s.ok \/ ~rw.ok THEN [ok |-> FALSE, w |-> w]
        ELSE [ok |-> TRUE, w |-> [w EXCEPT !.write = rw.file, !.write_entries = @ + 1]]

\* SSTWriter::put: the result (Ok or Err) and the writer afterwards.
put(w, key, value) ==
    LET k == data_key(key)
        s == split_on_ts_for(key)
    IN  IF ~s.ok THEN [ok |-> FALSE, w |-> w]
        ELSE IF is_short_value(value)
        THEN LET r == SstFilePut(w.write, k,
                                 to_bytes(WriteNew(WRITE_TYPE_PUT, s.ts, Some(Expand(value)))))
             IN  IF ~r.ok THEN [ok |-> FALSE, w |-> w]
                 ELSE [ok |-> TRUE,
                       w |-> [w EXCEPT !.write = r.file, !.write_entries = @ + 1]]
        ELSE LET r == SstFilePut(w.write, k, to_bytes(WriteNew(WRITE_TYPE_PUT, s.ts, None)))
             IN  IF ~r.ok THEN [ok |-> FALSE, w |-> w]
                 ELSE LET w1 == [w EXCEPT !.write = r.file, !.write_entries = @ + 1]
                          r2 == SstFilePut(w1.default, k, value)
                      IN  IF ~r2.ok THEN [ok |-> FALSE, w |-> w1]
                          ELSE [ok |-> TRUE,
                                w |-> [w1 EXCEPT !.default = r2.file,
                                                 !.default_entries = @ + 1]]

\* SSTInfo::new leaving the data prefix on the range.
sst_info_with_data_prefix(file, cf_name) ==
    [data |-> file.entries,
     range |-> [start |-> file.entries[1][1],
                end |-> file.entries[Len(file.entries)][1]],
     cf_name |-> cf_name]

\* SSTInfo::new: the file's bytes (here its entries), the range of its keys
\* without the data prefix, and the family's name.
SSTInfoNew(file, cf_name) ==
    [data |-> file.entries,
     range |-> [start |-> origin_key(file.entries[1][1]),
                end |-> origin_key(file.entries[Len(file.entries)][1])],
     cf_name |-> cf_name]

\* finish returning the write family's file first.
finish_write_first(w) ==
    (IF w.write_entries > 0 THEN <<SSTInfoNew(w.write, "write")>> ELSE << >>)
        \o (IF w.default_entries > 0 THEN <<SSTInfoNew(w.default, "default")>> ELSE << >>)

\* SSTWriter::finish
finish(w) ==
    (IF w.default_entries > 0 THEN <<SSTInfoNew(w.default, "default")>> ELSE << >>)
        \o (IF w.write_entries > 0 THEN <<SSTInfoNew(w.write, "write")>> ELSE << >>)

-----------------------------------------------------------------------------
(* The store the files are ingested into, and the MVCC reader over it.      *)

EmptyStore == [default |-> << >>, write |-> << >>]

\* DB::ingest_external_file_cf of each file into the family it names.
RECURSIVE IngestAll(_, _)
IngestAll(s, files) ==
    IF files = << >> THEN s
    ELSE IngestAll([s EXCEPT ![files[1].cf_name] = MapExtend(@, files[1].data)], Tail(files))

\* The versions of an encoded user key in the write family: <<commit_ts, record>>.
VersionsOf(s, user_key) ==
    {<<split_on_ts_for(origin_key(s.write[i][1])).ts, s.write[i][2]>> :
        i \in {j \in 1..Len(s.write) :
                  split_on_ts_for(origin_key(s.write[j][1])).key = user_key}}

\* MvccReader::get: the newest version committed at or before ts; its short
\* value, or the value of the default family at the version's start_ts.
MvccGet(s, raw, ts) ==
    LET visible == {v \in VersionsOf(s, from_raw(raw)) : v[1] <= ts} IN
    IF visible = {} THEN None
    ELSE LET newest == CHOOSE v \in visible : \A u \in visible : u[1] <= v[1]
             w == WriteParse(newest[2])
         IN  IF w.write_type # WRITE_TYPE_PUT THEN None
             ELSE IF w.short_value # None THEN w.short_value
             ELSE LET d == MapGet(s.default, data_key(append_ts(from_raw(raw), w.start_ts)))
                  IN  IF d = None THEN None ELSE Some(Expand(Unwrap(d)))

\* MvccReader::scan_keys: the encoded user keys of the write family, in
\* order, each once.
RECURSIVE ScanKeysFrom(_, _)
ScanKeysFrom(s, i) ==
    IF i > Len(s.write) THEN << >>
    ELSE LET k == split_on_ts_for(origin_key(s.write[i][1])).key
             rest == ScanKeysFrom(s, i + 1)
         IN  IF rest # << >> /\ rest[1] = k THEN rest ELSE <<k>> \o rest

scan_keys(s) == ScanKeysFrom(s, 1)

-----------------------------------------------------------------------------
(* The steps of the SST writer and its client.                              *)

SstInit ==
    /\ sst = SSTWriterNew
    /\ puts = << >>
    /\ infos = None
    /\ store = None

\* A call of put; the writer is left as put leaves it, and a put that
\* returned Ok is recorded.
SstPut(input, value) ==
    /\ infos = None
    /\ LET r == put(sst, input.key, value) IN
       /\ sst' = r.w
       /\ puts' = IF r.ok THEN Append(puts, [raw |-> input.raw, ts |-> input.ts,
                                            key |-> input.key, value |-> value])
                  ELSE puts
    /\ UNCHANGED <<infos, store, readerVars, engineVars>>

SstFinish ==
    /\ infos = None
    /\ infos' = Some(finish(sst))
    /\ UNCHANGED <<sst, puts, store, readerVars, engineVars>>

\* The files are written out and ingested into a fresh store.
Ingest ==
    /\ infos # None
    /\ store = None
    /\ store' = Some(IngestAll(EmptyStore, Unwrap(infos)))
    /\ UNCHANGED <<sst, puts, infos, readerVars, engineVars>>

\* The planner emitting a range at every handle, whatever the target.
ranges_per_handle(p, max_ranges, min_range_size) ==
    RangesFrom(p.index_handles, 1, 0, RANGE_MIN, 0, << >>)

\* The planner closing the last range at the last handle's key.
ranges_last_end_is_key(p, max_ranges, min_range_size) ==
    LET r == RangesFrom(p.index_handles, 1, 0, RANGE_MIN,
                        RangeSize(p.total_size, max_ranges, min_range_size), << >>)
    IN  IF r = << >> THEN r
        ELSE [r EXCEPT ![Len(r)].end = p.index_handles[Len(p.index_handles)][1]]

\* The planner with a target that min_range_size does not clamp.
ranges_unclamped(p, max_ranges, min_range_size) ==
    RangesFrom(p.index_handles, 1, 0, RANGE_MIN, RangeSize(p.total_size, max_ranges, 0), << >>)

\* The planner's loop without the reset of size after a range is pushed.
RECURSIVE RangesFromKeepingSize(_, _, _, _, _, _)
RangesFromKeepingSize(handles, i, size0, start, range_size, out) ==
    IF i > Len(handles) THEN out
    ELSE LET size == size0 + handles[i][2].size
             end == IF i = Len(handles) THEN RANGE_MAX ELSE handles[i][1]
         IN  IF size >= range_size \/ i = Len(handles)
             THEN RangesFromKeepingSize(handles, i + 1, size, end, range_size,
                                        Append(out, RangeInfo(start, end, size)))
             ELSE RangesFromKeepingSize(handles, i + 1, size, start, range_size, out)

ranges_size_not_reset(p, max_ranges, min_range_size) ==
    RangesFromKeepingSize(p.index_handles, 1, 0, RANGE_MIN,
                          RangeSize(p.total_size, max_ranges, min_range_size), << >>)

get_approximate_ranges(p, max_ranges, min_range_size) ==
    RangesFrom(p.index_handles, 1, 0, RANGE_MIN,
               RangeSize(p.total_size, max_ranges, min_range_size), << >>)

-----------------------------------------------------------------------------
(* The engine's steps.                                                      *)

EngineInit ==
    /\ db = EmptyDb
    /\ script = << >>
    /\ pc = 0
    /\ props = None
    /\ ranges = None
    /\ batch = None

\* The state after construction: a reader without delegates, an empty
\* engine, a new SST writer.
Init == ReaderInit /\ EngineInit /\ SstInit

\* DB::put through the engine's Deref, as test_approximate_ranges does.
EnginePut ==
    /\ pc < Len(script)
    /\ db' = DbPut(db, script[pc + 1][1], script[pc + 1][2])
    /\ pc' = pc + 1
    /\ props' = None
    /\ ranges' = None
    /\ UNCHANGED <<script, batch, readerVars, sstVars>>

\* DB::flush
EngineFlush ==
    /\ db.mem # << >>
    /\ db' = DbFlush(db)
    /\ props' = None
    /\ ranges' = None
    /\ UNCHANGED <<script, pc, batch, readerVars, sstVars>>

GetSizeProperties ==
    /\ \E p \in get_size_properties(db) : props' = Some(p)
    /\ ranges' = None
    /\ UNCHANGED <<db, script, pc, batch, readerVars, sstVars>>

GetApproximateRanges(max_ranges, min_range_size) ==
    /\ props # None
    /\ ranges' = Some([max_ranges |-> max_ranges, min_range_size |-> min_range_size,
                       out |-> get_approximate_ranges(Unwrap(props), max_ranges, min_range_size)])
    /\ UNCHANGED <<db, script, pc, props, batch, readerVars, sstVars>>

-----------------------------------------------------------------------------
(* SpecRanges: size properties and the range planner. The client issues the *)
(* puts of one script and may flush after any of them. The scripts are the  *)
(* short ones over three keys and two entry sizes (below the index distance *)
(* and exactly at it), and the nine-key load of test_approximate_ranges in  *)
(* its interleaved order and in ascending key order.                        *)

NumFiles == 3
NumEntries == 3

SmallKeys == {<<0>>, <<1>>, <<2>>}

ValueLens == {1, SIZE_INDEX_DISTANCE - 1}

MinRangeSizes == {0, 3, SIZE_INDEX_DISTANCE * 4}

\* The value of test_approximate_ranges: key and value fill one distance.
LoadValue(k) == Vec(0, SIZE_INDEX_DISTANCE - Len(k))

LoadScript(order) == [i \in 1..Len(order) |-> << <<order[i]>>, LoadValue(<<order[i]>>) >>]

\* (0, 3, 6), (1, 4, 7), (2, 5, 8)
InterleavedOrder ==
    [n \in 1..(NumFiles * NumEntries) |->
        ((n - 1) \div NumEntries) + ((n - 1) % NumEntries) * NumFiles]

AscendingOrder == [n \in 1..(NumFiles * NumEntries) |-> n - 1]

LoadOrders == {InterleavedOrder, AscendingOrder}

WriteScripts ==
    SeqsUpTo({<<k, Vec(0, n)>> : k \in SmallKeys, n \in ValueLens}, MaxWrites)
        \cup {LoadScript(o) : o \in LoadOrders}

InitRanges ==
    /\ ReaderInit
    /\ SstInit
    /\ db = EmptyDb
    /\ script \in WriteScripts
    /\ pc = 0
    /\ props = None
    /\ ranges = None
    /\ batch = None

NextRanges ==
    \/ EnginePut
    \/ EngineFlush
    \/ GetSizeProperties
    \/ \E k \in 1..MaxRanges, m \in MinRangeSizes : GetApproximateRanges(k, m)

SpecRanges == InitRanges /\ [][NextRanges]_vars

-----------------------------------------------------------------------------
(* Engine::write.                                                           *)

\* A mutation of a WriteBatch (the only op is Put).
Mutation(key, value) == [op |-> "Put", key |-> key, value |-> value]

WriteBatch(commit_ts, mutations) == [commit_ts |-> commit_ts, mutations |-> mutations]

\* The raw batch staged by the loop of Engine::write.
RawBatch(b) ==
    [i \in 1..Len(b.mutations) |->
        <<append_ts(from_raw(b.mutations[i].key), b.commit_ts), b.mutations[i].value>>]

\* A raw batch that keeps, of the writes of one key, only the first.
write_first_put_wins(d, b) ==
    LET wb == RawBatch(b) IN
    DbWrite(d, SelectSeq([i \in 1..Len(wb) |-> <<wb[i], i>>],
                         LAMBDA e : \A j \in 1..(e[2] - 1) : wb[j][1] # e[1][1]))

\* Engine::write: the database after the batch is written.
write(d, b) == DbWrite(d, RawBatch(b))

EngineWrite(b) ==
    /\ pc < MaxBatches
    /\ db' = write(db, b)
    /\ batch' = Some(b)
    /\ pc' = pc + 1
    /\ props' = None
    /\ ranges' = None
    /\ UNCHANGED <<script, readerVars, sstVars>>

-----------------------------------------------------------------------------
(* SpecWrite: batches written by Engine::write, and flushes.                *)

RawKeys == {<<0>>, <<1>>}

BatchValues == {Vec(1, 1), Vec(2, 1)}

CommitTimestamps == {10, 11, 12}

WriteBatches ==
    {WriteBatch(ts, ms) :
        ts \in CommitTimestamps,
        ms \in SeqsUpTo({Mutation(k, v) : k \in RawKeys, v \in BatchValues}, MaxMutations)}

NextWrite ==
    \/ \E b \in WriteBatches : EngineWrite(b)
    \/ EngineFlush

SpecWrite == Init /\ [][NextWrite]_vars

-----------------------------------------------------------------------------
(* SpecSst: puts into an SST writer, finish, and the ingest of the files.   *)
(* The keys are those of new_encoded_key over three raw keys and two commit *)
(* timestamps, and one key too short to hold a timestamp; the values are a  *)
(* one-byte value, the longest short value and the shortest long value.     *)

SstRawKeys == {<<0>>, <<1>>, <<2>>}

SstCommitTimestamps == {10, 11}

SstValues == {Vec(1, 1), Vec(1, SHORT_VALUE_MAX_LEN), Vec(1, SHORT_VALUE_MAX_LEN + 1)}

\* tests::new_encoded_key
new_encoded_key(raw, ts) == append_ts(from_raw(raw), ts)

SstInputs ==
    {[raw |-> r, ts |-> t, key |-> new_encoded_key(r, t)] :
        r \in SstRawKeys, t \in SstCommitTimestamps}
    \cup {[raw |-> << >>, ts |-> 0, key |-> <<0>>]}

NextSst ==
    \/ \E input \in SstInputs, value \in SstValues : SstPut(input, value)
    \/ SstFinish
    \/ Ingest

SpecSst == Init /\ [][NextSst]_vars
-----------------------------------------------------------------------------
(* Spec: the request checks. Region 1 is registered and updated; a request *)
(* for region 1 takes every header, a request for region 2 (never          *)
(* registered) one header per store id. A lease is handed out unexpired    *)
(* for the whole run or already expired.                                   *)

ChecksDelegates == {from_peer(1, 2, 2, 1, a) : a \in Terms}

ChecksProgresses ==
    {Progress("Region", 2)}
    \cup {Progress("Term", t) : t \in Terms}
    \cup {Progress("AppliedIndexTerm", t) : t \in Terms}
    \cup {Progress("LeaderLease", NewRemoteLease(t, e)) : t \in Terms, e \in {0, MaxTime + 1}}

ChecksRequests ==
    {r \in Requests : r.region_id = 2 =>
                         (r.peer_id = 2 /\ r.term = 1 /\ r.version = 2 /\ ~r.read_quorum)}

ChecksUpdates == ({1} \X ChecksProgresses) \cup {<<2, Progress("Term", 1)>>}

Next == ReaderNext(ChecksDelegates, ChecksUpdates, ChecksRequests, {MaxTime + 1}, ChecksMaxTime)

Spec == Init /\ [][Next]_vars

-----------------------------------------------------------------------------
(* SpecLease: the lease and the clock. Every request is for region 1 and   *)
(* passes the store, peer and epoch checks.                                *)

LeaseDelegates == {from_peer(1, 1, 2, t, t) : t \in Terms}

LeaseProgresses ==
    {Progress("Term", t) : t \in Terms}
    \cup {Progress("AppliedIndexTerm", t) : t \in Terms}
    \cup {Progress("LeaderLease", NewRemoteLease(t, e)) : t \in Terms, e \in ExpireTimes}

LeaseRequests ==
    {r \in Requests : r.store_id = StoreId /\ r.region_id = 1 /\ r.peer_id = 2
                       /\ r.version = 1 /\ ~r.read_quorum}

LeaseUpdates == {1} \X LeaseProgresses

NextLease == ReaderNext(LeaseDelegates, LeaseUpdates, LeaseRequests, ExpireTimes, MaxTime)

SpecLease == Init /\ [][NextLease]_vars

-----------------------------------------------------------------------------
(* Properties of the local reader.                                         *)

\* The callbacks of the task processed last that carry a local response
\* (no error in the header).
LocalResponses == {i \in 1..Len(invoked) : invoked[i].resp.error = ""}

\* C1 (lease safety, P6): a read is answered locally only if the delegate's
\* current lease has the delegate's term and that lease was inspected Valid
\* at the snapshot_time of the batch that serves the read.
C1_LeaseSafety ==
    \A i \in LocalResponses :
        LET r == invoked[i].resp.snapshot IN
        /\ r \in DOMAIN delegates
        /\ delegates[r].leader_lease # None
        /\ Unwrap(delegates[r].leader_lease).term = delegates[r].term
        /\ r \in inspected

\* The counters a rejected request may count under, by the first check of
\* pre_propose / handle_read that fails; a read_quorum request that passes
\* the header checks has no counter of its own, so any one is accepted.
ExpectedCounters(req) ==
    IF req.store_id # StoreId THEN {"store_id_mismatch"}
    ELSE IF req.region_id \notin DOMAIN delegates THEN {"no_region"}
    ELSE LET d == delegates[req.region_id] IN
         IF req.peer_id # d.peer_id THEN {"peer_id_mismatch"}
         ELSE IF req.term # d.term THEN {"term_mismatch"}
         ELSE IF req.version < d.version THEN {"epoch"}
         ELSE IF req.read_quorum THEN CounterNames
         ELSE IF d.applied_index_term # d.term THEN {"appiled_term"}
         ELSE IF d.leader_lease = None THEN {"no_lease"}
         ELSE IF Unwrap(d.leader_lease).term # d.term THEN {"term_mismatch"}
         ELSE {"lease_expire"}

\* C2 (counter accuracy, P7): a read that is not answered from a local
\* snapshot increments exactly one counter, the one of its cause, by one,
\* and changes no other counter.
C2_CounterAccuracy ==
    [][\A req \in Requests, cb \in CallbackIds :
          (TaskReadRaftCmd(req, cb) /\ LocalResponses' = {})
              => \E c \in ExpectedCounters(req) : metrics' = Inc(metrics, c)]_vars

\* The requests with the reader's store id for a region without a delegate.
UnknownRegionRequests ==
    {req \in Requests : req.store_id = StoreId /\ req.region_id \notin DOMAIN delegates}

\* C10 as stated: a read with the reader's store id for a region without a
\* delegate is enqueued unchanged, its callback is not invoked and
\* no_region grows by one (nothing else is counted).
C10_UnknownRegionForwarded ==
    [][\A req \in UnknownRegionRequests, cb \in CallbackIds :
          TaskReadRaftCmd(req, cb)
              => /\ ch' = Append(ch, RaftCmd(req, cb))
                 /\ invoked' = << >>
                 /\ metrics' = Inc(metrics, "no_region")]_vars

\* C10, amended: the same while the channel takes the message; with the
\* channel full the message is not enqueued, the callback gets ServerIsBusy
\* and channel_full grows by one as well. no_region grows by one either way
\* and the registry is left alone.
C10_UnknownRegion ==
    [][\A req \in UnknownRegionRequests, cb \in CallbackIds :
          (~ch_closed /\ TaskReadRaftCmd(req, cb))
              => /\ delegates' = delegates
                 /\ metrics'["no_region"] = metrics["no_region"] + 1
                 /\ IF Len(ch) < ChannelCap
                    THEN /\ ch' = Append(ch, RaftCmd(req, cb))
                         /\ invoked' = << >>
                         /\ metrics' = Inc(metrics, "no_region")
                    ELSE /\ ch' = ch
                         /\ invoked' = <<[callback |-> cb, resp |-> BusyResponse]>>
                         /\ metrics' = Inc(Inc(metrics, "no_region"), "channel_full")]_vars

\* A read for an unregistered region sits in the channel, counted once,
\* and no callback was invoked.
C10_Witness ==
    /\ metrics["no_region"] = 1
    /\ TotalRejects(metrics) = 1
    /\ invoked = << >>
    /\ Len(ch) = 1
    /\ ch[1].request.region_id \notin DOMAIN delegates
    /\ ch[1].request.store_id = StoreId

-----------------------------------------------------------------------------
(* Properties of the request checks and of forwarding.                     *)

\* The request passes the store-id, region, peer-id, term and epoch checks
\* against the registry.
PassesChecks(req) ==
    /\ check_store_id(req, StoreId)
    /\ req.region_id \in DOMAIN delegates
    /\ check_peer_id(req, delegates[req.region_id].peer_id)
    /\ check_term(req, delegates[req.region_id].term)
    /\ check_region_epoch(req, delegates[req.region_id])

\* The step is the task Read(RaftCmd(req, cb)), for a request of the set S.
ReadOf(S, req, cb) == req \in S /\ TaskReadRaftCmd(req, cb)

\* The step forwards RaftCmd(req, cb) with the counters at m when the
\* channel has room; with the channel full nothing is enqueued, the callback
\* gets ServerIsBusy and channel_full is counted on top of m.
ForwardedOrBusy(req, cb, m) ==
    IF Len(ch) < ChannelCap
    THEN /\ ch' = Append(ch, RaftCmd(req, cb))
         /\ invoked' = << >>
         /\ metrics' = m
    ELSE /\ ch' = ch
         /\ invoked' = <<[callback |-> cb, resp |-> BusyResponse]>>
         /\ metrics' = Inc(m, "channel_full")

\* The requests for a registered region whose delegate has not applied to
\* its current term.
StaleAppliedRequests ==
    {req \in Requests :
        /\ req.region_id \in DOMAIN delegates
        /\ delegates[req.region_id].applied_index_term # delegates[req.region_id].term}

\* C11 as stated: while a delegate has applied_index_term # term no read for
\* its region is served locally, and a read that passes the header checks is
\* enqueued on the channel with appiled_term one higher.
C11_StaleAppliedTermForwarded ==
    [][\A req \in Requests, cb \in CallbackIds :
          ReadOf(StaleAppliedRequests, req, cb)
              => /\ LocalResponses' = {}
                 /\ PassesChecks(req)
                        => /\ ch' = Append(ch, RaftCmd(req, cb))
                           /\ metrics'["appiled_term"] = metrics["appiled_term"] + 1]_vars

\* C11, amended: while a delegate has applied_index_term # term no read for
\* its region is served locally. A read that passes the header checks counts
\* appiled_term once unless it asks for read_quorum (then it counts nothing),
\* and is enqueued while the channel has room; with the channel full it is
\* answered ServerIsBusy and channel_full is counted as well.
C11_StaleAppliedTerm ==
    [][\A req \in Requests, cb \in CallbackIds :
          (~ch_closed /\ ReadOf(StaleAppliedRequests, req, cb))
              => /\ LocalResponses' = {}
                 /\ delegates' = delegates
                 /\ PassesChecks(req)
                        => ForwardedOrBusy(req, cb,
                               IF req.read_quorum THEN metrics
                               ELSE Inc(metrics, "appiled_term"))]_vars

\* A read for a delegate with a stale applied term and an unexpired lease at
\* the delegate's term sits in the channel, counted under appiled_term.
C11_Witness ==
    /\ metrics["appiled_term"] = 1
    /\ TotalRejects(metrics) = 1
    /\ invoked = << >>
    /\ Len(ch) = 1
    /\ PassesChecks(ch[1].request)
    /\ ~ch[1].request.read_quorum
    /\ LET d == delegates[ch[1].request.region_id] IN
       /\ d.applied_index_term # d.term
       /\ d.leader_lease # None
       /\ Unwrap(d.leader_lease).term = d.term
       /\ LeaseInspect(Unwrap(d.leader_lease), now) = "Valid"

\* The requests that pass every check of pre_propose listed for a local
\* read (store id, delegate, peer id, term, epoch, applied term, lease
\* present) and whose lease has the delegate's term and is Valid at the
\* batch's snapshot_time.
LocalReadRequests ==
    {req \in Requests :
        /\ PassesChecks(req)
        /\ LET d == delegates[req.region_id] IN
           /\ d.applied_index_term = d.term
           /\ d.leader_lease # None
           /\ Unwrap(d.leader_lease).term = d.term
           /\ LeaseInspect(Unwrap(d.leader_lease), SnapshotTime(exec)) = "Valid"}

\* The step answers cb from the local snapshot of the request's region with
\* the delegate's term in the header, sends nothing and counts nothing.
ServedLocally(req, cb) ==
    /\ invoked' = <<[callback |-> cb,
                     resp |-> Response("", delegates[req.region_id].term, req.region_id)]>>
    /\ ch' = ch
    /\ metrics' = metrics

\* C12 as stated: every read that passes the listed checks under a lease of
\* the delegate's term that is Valid at snapshot_time is answered from the
\* local snapshot.
C12_LocalServingAnyRead ==
    [][\A req \in Requests, cb \in CallbackIds :
          ReadOf(LocalReadRequests, req, cb) => ServedLocally(req, cb)]_vars

\* C12, amended: such a read is answered from the local snapshot when it
\* does not ask for read_quorum: the callback gets the executor's response
\* with a snapshot and the delegate's term, nothing is sent to the channel
\* and no counter changes.
C12_LocalServing ==
    [][\A req \in Requests, cb \in CallbackIds :
          (ReadOf(LocalReadRequests, req, cb) /\ ~req.read_quorum) => ServedLocally(req, cb)]_vars

\* A read was answered from the snapshot of region 1 at the delegate's term,
\* with an empty channel and untouched counters.
C12_Witness ==
    /\ Len(invoked) = 1
    /\ invoked[1].resp.error = ""
    /\ invoked[1].resp.snapshot = 1
    /\ 1 \in DOMAIN delegates
    /\ invoked[1].resp.term = delegates[1].term
    /\ delegates[1].last_valid_ts = now
    /\ ch = << >>
    /\ metrics = MetricsDefault

\* The requests that reach handle_read (every check of pre_propose passes
\* and the policy is ReadLocal) for a delegate whose lease has the
\* delegate's term, inspects Expired at the batch's snapshot_time and is
\* not covered by the quick path.
LeaseExpiredRequests ==
    {req \in Requests :
        /\ PassesChecks(req)
        /\ ~req.read_quorum
        /\ LET d == delegates[req.region_id] IN
           /\ d.applied_index_term = d.term
           /\ d.leader_lease # None
           /\ Unwrap(d.leader_lease).term = d.term
           /\ d.last_valid_ts # SnapshotTime(exec)
           /\ LeaseInspect(Unwrap(d.leader_lease), SnapshotTime(exec)) = "Expired"}

\* C13 as stated: a read under a lease of the delegate's term that inspects
\* Expired is not served locally, is enqueued on the channel, counts
\* lease_expire once and leaves last_valid_ts alone.
C13_LeaseExpiryForwarded ==
    [][\A req \in Requests, cb \in CallbackIds :
          ReadOf(LeaseExpiredRequests, req, cb)
              => /\ LocalResponses' = {}
                 /\ ch' = Append(ch, RaftCmd(req, cb))
                 /\ metrics'["lease_expire"] = metrics["lease_expire"] + 1
                 /\ delegates'[req.region_id].last_valid_ts =
                        delegates[req.region_id].last_valid_ts]_vars

\* C13, amended: handle_read yields None for such a read (the entry of a
\* batch), counts lease_expire once and leaves last_valid_ts alone; the
\* RaftCmd is enqueued while the channel has room, and with the channel full
\* it is answered ServerIsBusy and channel_full is counted as well.
C13_LeaseExpiry ==
    [][\A req \in Requests, cb \in CallbackIds :
          (~ch_closed /\ ReadOf(LeaseExpiredRequests, req, cb))
              => /\ LocalResponses' = {}
                 /\ handle_read(delegates[req.region_id], exec, metrics).resp = None
                 /\ handle_read(delegates[req.region_id], exec, metrics).metrics =
                        Inc(metrics, "lease_expire")
                 /\ delegates' = delegates
                 /\ ForwardedOrBusy(req, cb, Inc(metrics, "lease_expire"))]_vars

\* Inside a batch, a read under a lease of the delegate's term that has
\* expired sits in the channel, counted under lease_expire; last_valid_ts is
\* not the batch's snapshot_time.
C13_Witness ==
    /\ exec.active
    /\ exec.snapshot_time = Some(now)
    /\ metrics["lease_expire"] = 1
    /\ TotalRejects(metrics) = 1
    /\ invoked = << >>
    /\ Len(ch) = 1
    /\ ch[1].request \in LeaseExpiredRequests

\* The regions whose delegate holds a lease that inspects Expired now.
ExpiredLeaseRegions ==
    {r \in DOMAIN delegates :
        /\ delegates[r].leader_lease # None
        /\ LeaseInspect(Unwrap(delegates[r].leader_lease), now) = "Expired"}

\* The regions whose delegate holds a lease the leader has expired and let
\* go (Lease::expire).
DetachedLeaseRegions ==
    {r \in DOMAIN delegates :
        /\ delegates[r].leader_lease # None
        /\ ~Unwrap(delegates[r].leader_lease).connected}

\* C14 as stated: once the lease held by a delegate has expired, a renewal
\* of the leader's lease leaves it Expired.
C14_RenewNeverRevalidates ==
    [][\A r \in ExpiredLeaseRegions, b \in ExpireTimes :
          LeaderRenew(r, b)
              => LeaseInspect(Unwrap(delegates'[r].leader_lease), now) = "Expired"]_vars

\* C14, amended: once the leader has expired its lease (Lease::expire), the
\* lease held by the delegate inspects Expired at every time, a renewal of
\* the leader's lease leaves the delegate as it is, and a read that reaches
\* handle_read outside the quick path is not served locally: it counts
\* lease_expire once and is enqueued, or answered ServerIsBusy with
\* channel_full counted when the channel is full.
C14_RenewAfterExpire ==
    [][/\ \A r \in DetachedLeaseRegions :
            /\ \A t \in Times : LeaseInspect(Unwrap(delegates[r].leader_lease), t) = "Expired"
            /\ \A b \in ExpireTimes : LeaderRenew(r, b) => delegates' = delegates
       /\ \A req \in Requests, cb \in CallbackIds :
            (/\ req.region_id \in DetachedLeaseRegions
             /\ ~ch_closed
             /\ ReadOf(LeaseExpiredRequests, req, cb))
                => /\ LocalResponses' = {}
                   /\ delegates' = delegates
                   /\ ForwardedOrBusy(req, cb, Inc(metrics, "lease_expire"))]_vars

\* In a batch begun after the leader expired and then renewed its lease, a
\* read under the delegate's lease sits in the channel, counted under
\* lease_expire.
C14_Witness ==
    /\ exec.active
    /\ exec.snapshot_time = Some(now)
    /\ \E x \in renewed : x.region = 1 /\ x.at < now
    /\ 1 \in DetachedLeaseRegions
    /\ metrics["lease_expire"] = 1
    /\ TotalRejects(metrics) = 1
    /\ invoked = << >>
    /\ Len(ch) = 1
    /\ ch[1].request \in LeaseExpiredRequests

\* The requests propose_raft_command has to forward: pre_propose answers
\* Ok(None), or Ok(Some) and handle_read yields None.
MustForward ==
    {req \in Requests :
        LET p == pre_propose_raft_command(req, delegates, metrics) IN
        \/ p.res = "None"
        \/ /\ p.res = "Some"
           /\ handle_read(delegates[req.region_id], exec, p.metrics).resp = None}

\* C15 (channel full): a read that has to be forwarded while the channel is
\* full is not enqueued; its callback gets a ServerIsBusy response without a
\* snapshot, channel_full grows by one, and the reader goes on with its
\* registry unchanged.
C15_ChannelFull ==
    [][\A req \in Requests, cb \in CallbackIds :
          (~ch_closed /\ Len(ch) >= ChannelCap /\ ReadOf(MustForward, req, cb))
              => /\ ch' = ch
                 /\ invoked' = <<[callback |-> cb, resp |-> Response("ServerIsBusy", 0, 0)]>>
                 /\ metrics'["channel_full"] = metrics["channel_full"] + 1
                 /\ ~panicked'
                 /\ delegates' = delegates]_vars

\* With capacity 1, the first forwarded read sits in the channel and the
\* second one was answered ServerIsBusy and counted under channel_full.
C15_Witness ==
    /\ ChannelCap = 1
    /\ Len(ch) = 1
    /\ metrics["channel_full"] = 1
    /\ Len(invoked) = 1
    /\ invoked[1].resp.error = "ServerIsBusy"
    /\ invoked[1].resp.snapshot = 0
    /\ ~panicked

\* The requests whose store id is not the reader's.
StoreMismatchRequests == {req \in Requests : ~check_store_id(req, StoreId)}

\* The step answers cb with the error err and no snapshot, sends nothing
\* and counts once, under counter.
RejectedWith(cb, err, counter) ==
    /\ Len(invoked') = 1
    /\ invoked'[1].callback = cb
    /\ invoked'[1].resp.error = err
    /\ invoked'[1].resp.snapshot = 0
    /\ ch' = ch
    /\ metrics' = Inc(metrics, counter)

\* C16 (store-id mismatch): a read whose store id differs from the reader's
\* is answered StoreNotMatch without a snapshot, is not forwarded and counts
\* store_id_mismatch once, whether or not its region has a delegate and
\* whatever the rest of its header.
C16_StoreIdMismatch ==
    [][\A req \in Requests, cb \in CallbackIds :
          ReadOf(StoreMismatchRequests, req, cb)
              => /\ RejectedWith(cb, "StoreNotMatch", "store_id_mismatch")
                 /\ delegates' = delegates]_vars

\* A read was answered StoreNotMatch with the term of its region's delegate
\* bound into the header (so the region has a delegate); nothing was sent.
C16_Witness ==
    /\ Len(invoked) = 1
    /\ invoked[1].resp.error = "StoreNotMatch"
    /\ invoked[1].resp.snapshot = 0
    /\ invoked[1].resp.term # 0
    /\ metrics = Inc(MetricsDefault, "store_id_mismatch")
    /\ ch = << >>

\* The requests for a registered region whose peer id is not the delegate's.
PeerMismatchRequests ==
    {req \in Requests :
        /\ req.region_id \in DOMAIN delegates
        /\ ~check_peer_id(req, delegates[req.region_id].peer_id)}

\* C17 as stated: a read for a registered region with another peer id than
\* the delegate's is answered PeerNotMatch without a snapshot, is not
\* forwarded and counts peer_id_mismatch once.
C17_PeerIdMismatchAnyStore ==
    [][\A req \in Requests, cb \in CallbackIds :
          ReadOf(PeerMismatchRequests, req, cb)
              => RejectedWith(cb, "PeerNotMatch", "peer_id_mismatch")]_vars

\* C17, amended: the same for a read that carries the reader's store id (a
\* read with another store id is answered StoreNotMatch before the peer id
\* is looked at).
C17_PeerIdMismatch ==
    [][\A req \in Requests, cb \in CallbackIds :
          (check_store_id(req, StoreId) /\ ReadOf(PeerMismatchRequests, req, cb))
              => /\ RejectedWith(cb, "PeerNotMatch", "peer_id_mismatch")
                 /\ delegates' = delegates]_vars

\* A read for the registered region 1 was answered PeerNotMatch with the
\* delegate's term in the header; nothing was sent.
C17_Witness ==
    /\ Len(invoked) = 1
    /\ invoked[1].resp.error = "PeerNotMatch"
    /\ invoked[1].resp.snapshot = 0
    /\ 1 \in DOMAIN delegates
    /\ invoked[1].resp.term = delegates[1].term
    /\ metrics = Inc(MetricsDefault, "peer_id_mismatch")
    /\ ch = << >>

\* The requests with the reader's store id and the delegate's peer id for a
\* registered region whose term is not the delegate's.
TermMismatchRequests ==
    {req \in Requests :
        /\ check_store_id(req, StoreId)
        /\ req.region_id \in DOMAIN delegates
        /\ check_peer_id(req, delegates[req.region_id].peer_id)
        /\ ~check_term(req, delegates[req.region_id].term)}

\* C18 (term mismatch): a read for a registered region with matching store
\* and peer ids whose term is not the delegate's is answered StaleCommand
\* without a snapshot, is not forwarded and counts term_mismatch once.
C18_TermMismatch ==
    [][\A req \in Requests, cb \in CallbackIds :
          ReadOf(TermMismatchRequests, req, cb)
              => /\ RejectedWith(cb, "StaleCommand", "term_mismatch")
                 /\ delegates' = delegates]_vars

\* A read was answered StaleCommand; the header carries the delegate's
\* term, the only counter touched is term_mismatch and nothing was sent.
C18_Witness ==
    /\ Len(invoked) = 1
    /\ invoked[1].resp.error = "StaleCommand"
    /\ invoked[1].resp.snapshot = 0
    /\ 1 \in DOMAIN delegates
    /\ invoked[1].resp.term = delegates[1].term
    /\ metrics = Inc(MetricsDefault, "term_mismatch")
    /\ ch = << >>

\* The requests that pass the store-id, region, peer-id and term checks
\* with a region epoch that is stale against the delegate's region.
StaleEpochRequests ==
    {req \in Requests :
        /\ check_store_id(req, StoreId)
        /\ req.region_id \in DOMAIN delegates
        /\ check_peer_id(req, delegates[req.region_id].peer_id)
        /\ check_term(req, delegates[req.region_id].term)
        /\ ~check_region_epoch(req, delegates[req.region_id])}

\* C19 as stated: a read with a stale epoch is enqueued unchanged, its
\* callback is not invoked and epoch is counted once.
C19_StaleEpochForwarded ==
    [][\A req \in Requests, cb \in CallbackIds :
          ReadOf(StaleEpochRequests, req, cb)
              => /\ ch' = Append(ch, RaftCmd(req, cb))
                 /\ invoked' = << >>
                 /\ metrics' = Inc(metrics, "epoch")]_vars

\* C19, amended: a read with a stale epoch never gets an error of the
\* checks; it counts epoch once and is enqueued unchanged without a callback
\* while the channel has room, and with the channel full it is answered
\* ServerIsBusy and channel_full is counted as well.
C19_StaleEpoch ==
    [][\A req \in Requests, cb \in CallbackIds :
          (~ch_closed /\ ReadOf(StaleEpochRequests, req, cb))
              => /\ metrics'["epoch"] = metrics["epoch"] + 1
                 /\ delegates' = delegates
                 /\ ForwardedOrBusy(req, cb, Inc(metrics, "epoch"))]_vars

\* A read with an older region version than the delegate's sits in the
\* channel, counted under epoch, and no callback was invoked.
C19_Witness ==
    /\ metrics = Inc(MetricsDefault, "epoch")
    /\ invoked = << >>
    /\ Len(ch) = 1
    /\ ch[1].request \in StaleEpochRequests

-----------------------------------------------------------------------------
(* Task::acceptable: which messages a sender may hand to the local reader. *)

\* raft_cmdpb::CmdType
CmdTypes == {"Invalid", "Get", "Put", "Delete", "Snap", "Prewrite", "DeleteRange", "IngestSST"}

\* The loop over request.get_requests(): false at the first sub-request
\* that is neither Get nor Snap, true when the loop runs out.
RECURSIVE all_get_or_snap(_)
all_get_or_snap(requests) ==
    IF requests = << >> THEN TRUE
    ELSE IF requests[1] \in {"Get", "Snap"} THEN all_get_or_snap(Tail(requests))
    ELSE FALSE

\* Task::acceptable with the Invalid cmd type let through.
acceptable_lets_invalid_through(msg) ==
    CASE msg.kind = "RaftCmd" ->
            IF msg.request.has_admin_request \/ msg.request.has_status_request
            THEN FALSE
            ELSE \A i \in 1..Len(msg.request.requests) :
                    msg.request.requests[i] \in {"Get", "Snap", "Invalid"}
      [] msg.kind = "BatchRaftSnapCmds" -> TRUE
      [] OTHER -> FALSE

\* Task::acceptable
acceptable(msg) ==
    CASE msg.kind = "RaftCmd" ->
            IF msg.request.has_admin_request \/ msg.request.has_status_request
            THEN FALSE
            ELSE all_get_or_snap(msg.request.requests)
      [] msg.kind = "BatchRaftSnapCmds" -> TRUE
      [] OTHER -> FALSE

\* A RaftCmdRequest as acceptable reads it: whether it has an admin or a
\* status request, and the cmd types of its sub-requests.
CmdRequests ==
    [has_admin_request : BOOLEAN, has_status_request : BOOLEAN,
     requests : SeqsUpTo(CmdTypes, MaxRequests)]

\* The variants of StoreMsg other than the two the reader takes.
OtherMsgKinds == {"Quit", "RaftMessage", "SnapshotStats"}

StoreMsgs ==
    {[kind |-> "RaftCmd", request |-> r] : r \in CmdRequests}
        \cup {[kind |-> "BatchRaftSnapCmds", batch |-> b] : b \in SeqsUpTo({"Snap"}, MaxRequests)}
        \cup {[kind |-> k] : k \in OtherMsgKinds}

\* A sender asks whether msg may be sent to the local reader.
Offer(msg) ==
    /\ offered' = Some([msg |-> msg, acceptable |-> acceptable(msg)])
    /\ UNCHANGED <<delegates, metrics, ch, ch_closed, panicked, now, exec, invoked, inspected,
                 renewed, scheduled, drained, engineVars, sstVars>>

NextAccept == \E msg \in StoreMsgs : Offer(msg)

SpecAccept == Init /\ [][NextAccept]_vars

\* C20 (acceptability predicate): acceptable(msg) is true exactly when msg
\* is a BatchRaftSnapCmds, or a RaftCmd without admin and status request all
\* of whose sub-requests are Get or Snap (a RaftCmd without sub-requests
\* included); it is false for a RaftCmd with a Put, Delete, DeleteRange,
\* Prewrite, IngestSST or Invalid sub-request and for every other variant.
C20_Acceptable ==
    offered # None =>
        LET msg == Unwrap(offered).msg
            answer == Unwrap(offered).acceptable
        IN  /\ answer <=>
                  \/ msg.kind = "BatchRaftSnapCmds"
                  \/ /\ msg.kind = "RaftCmd"
                     /\ ~msg.request.has_admin_request
                     /\ ~msg.request.has_status_request
                     /\ \A i \in 1..Len(msg.request.requests) :
                           msg.request.requests[i] \in {"Get", "Snap"}
            /\ (/\ msg.kind = "RaftCmd"
                /\ \E i \in 1..Len(msg.request.requests) :
                      msg.request.requests[i] \in
                          {"Put", "Delete", "DeleteRange", "Prewrite", "IngestSST", "Invalid"})
                   => ~answer
            /\ msg.kind \notin {"RaftCmd", "BatchRaftSnapCmds"} => ~answer

\* A RaftCmd without admin request, status request and sub-requests was
\* found acceptable.
C20_Witness ==
    /\ offered # None
    /\ Unwrap(offered).msg.kind = "RaftCmd"
    /\ ~Unwrap(offered).msg.request.has_admin_request
    /\ ~Unwrap(offered).msg.request.has_status_request
    /\ Unwrap(offered).msg.request.requests = << >>
    /\ Unwrap(offered).acceptable

-----------------------------------------------------------------------------
(* SpecBatch: batches of snapshot requests. Region 1 is registered and     *)
(* updated, region 2 never is; a batch draws its requests from one request *)
(* per outcome of the checks.                                              *)

\* The request that passes every check of a delegate at term 1, version 2.
GoodRequest ==
    [store_id |-> StoreId, region_id |-> 1, peer_id |-> 2, term |-> 1, version |-> 2,
     read_quorum |-> FALSE]

BatchRequests ==
    {GoodRequest,
     [GoodRequest EXCEPT !.region_id = 2],
     [GoodRequest EXCEPT !.peer_id = 3]}

BatchDelegates == {from_peer(1, 2, 2, 1, 2)}

BatchProgresses ==
    {Progress("AppliedIndexTerm", 1)}
    \cup {Progress("LeaderLease", NewRemoteLease(1, e)) : e \in {0, MaxTime + 1}}
    \cup {Progress("LeaderLease", NewRemoteLease(2, MaxTime + 1))}

NextBatch ==
    \/ BeginBatch(ChecksMaxTime)
    \/ EndBatch
    \/ \E d \in BatchDelegates : TaskRegister(d)
    \/ \E p \in BatchProgresses : TaskUpdate(1, p)
    \/ \E cmds \in SeqsUpTo(BatchRequests, MaxRequests), cb \in CallbackIds :
          ScheduleBatch(BatchRaftSnapCmds(cmds, cb))
    \/ TaskReadBatchRaftSnapCmds

SpecBatch == Init /\ [][NextBatch]_vars

\* The decision of the reader on req in the registry ds with the snapshot
\* time ts: an error for a store id, peer id or term that does not match, a
\* local read when every check passes and the lease is in force at ts, and
\* forwarding otherwise.
DecisionOn(req, ds, ts) ==
    IF req.store_id # StoreId THEN "Error"
    ELSE IF req.region_id \notin DOMAIN ds THEN "Forward"
    ELSE LET d == ds[req.region_id] IN
         IF req.peer_id # d.peer_id \/ req.term # d.term THEN "Error"
         ELSE IF \/ req.version < d.version
                 \/ req.read_quorum
                 \/ d.applied_index_term # d.term
                 \/ d.leader_lease = None
         THEN "Forward"
         ELSE LET lease == Unwrap(d.leader_lease) IN
              IF lease.term # d.term THEN "Forward"
              ELSE IF d.last_valid_ts = ts \/ ts < lease.expired_time
              THEN "Local"
              ELSE "Forward"

\* The decision on req in the current state.
Decision(req) == DecisionOn(req, delegates, SnapshotTime(exec))

\* Whether the entry of the list handed to on_finished is the one of the
\* decision.
EntryOf(entry, req, decision) ==
    CASE decision = "Local" ->
            /\ entry # None
            /\ Unwrap(entry).error = ""
            /\ Unwrap(entry).snapshot = req.region_id
      [] decision = "Error" ->
            /\ entry # None
            /\ Unwrap(entry).error \in {"StoreNotMatch", "PeerNotMatch", "StaleCommand"}
            /\ Unwrap(entry).snapshot = 0
      [] decision = "Forward" -> entry = None

\* C21 (batch handling): a BatchRaftSnapCmds of n requests leaves the
\* channel alone; on_finished is invoked exactly once, with a list of n
\* entries, and entry i is the outcome of request i: Some(local response)
\* when it is served locally, Some(error response) when the store id, peer
\* id or term check failed, None when the decision is to forward.
C21_BatchHandling ==
    [][TaskReadBatchRaftSnapCmds
          => LET cmds == Unwrap(scheduled).batch IN
             /\ ch' = ch
             /\ Len(invoked') = 1
             /\ invoked'[1].callback = Unwrap(scheduled).on_finished
             /\ Len(invoked'[1].resps) = Len(cmds)
             /\ \A i \in 1..Len(cmds) :
                   EntryOf(invoked'[1].resps[i], cmds[i], Decision(cmds[i]))]_vars

\* on_finished got a list of two entries, None for the first request and a
\* local response for the second, and the channel is empty.
C21_Witness ==
    /\ Len(invoked) = 1
    /\ "resps" \in DOMAIN invoked[1]
    /\ Len(invoked[1].resps) = 2
    /\ invoked[1].resps[1] = None
    /\ invoked[1].resps[2] # None
    /\ Unwrap(invoked[1].resps[2]).error = ""
    /\ ch = << >>
-----------------------------------------------------------------------------
(* SpecOrder: run_batch over task vectors fixed at entry. The store has a  *)
(* peer of region 2, with or without one of region 1; the tasks are about  *)
(* region 1.                                                               *)

\* The registries LocalReader::new builds from the store's peers.
OrderPeers ==
    {Put(<< >>, 2, from_peer(2, 1, 2, 1, 1)),
     Put(Put(<< >>, 1, from_peer(1, 2, 2, 1, 1)), 2, from_peer(2, 1, 2, 1, 1))}

\* The read of region 1 at term 2.
OrderRequest == [GoodRequest EXCEPT !.term = 2]

OrderDelegates == {from_peer(1, 2, 2, 1, 1)}

OrderProgresses ==
    {Progress("Term", 2), Progress("AppliedIndexTerm", 2)}
    \cup {Progress("LeaderLease", NewRemoteLease(t, MaxTime + 1)) : t \in Terms}

OrderTasks ==
    {RegisterTask(d) : d \in OrderDelegates}
    \cup {UpdateTask(1, p) : p \in OrderProgresses}
    \cup {DestroyTask(1), ReadTask(RaftCmd(OrderRequest, 1))}

InitOrder == (\E peers \in OrderPeers : LocalReaderNew(peers, TRUE)) /\ EngineInit /\ SstInit

NextOrder ==
    \/ RunBatch(OrderTasks, ChecksMaxTime)
    \/ EndBatch
    \/ \E d \in OrderDelegates : TaskRegister(d)
    \/ \E p \in OrderProgresses : TaskUpdate(1, p)
    \/ TaskDestroy(1)
    \/ TaskReadRaftCmd(OrderRequest, 1)

SpecOrder == InitOrder /\ [][NextOrder]_vars

\* The registry after one Register, Update or Destroy task, written out
\* field by field; a Read task leaves the fields below alone.
AfterTask(ds, task) ==
    CASE task.kind = "Register" ->
            [r \in DOMAIN ds \cup {task.delegate.region_id} |->
                IF r = task.delegate.region_id THEN task.delegate ELSE ds[r]]
      [] task.kind = "Update" /\ task.region_id \in DOMAIN ds ->
            LET d == ds[task.region_id]
                p == task.progress
            IN  [ds EXCEPT ![task.region_id] =
                    [region_id |-> d.region_id,
                     version |-> IF p.kind = "Region" THEN p.value ELSE d.version,
                     peer_id |-> d.peer_id,
                     term |-> IF p.kind = "Term" THEN p.value ELSE d.term,
                     applied_index_term |-> IF p.kind = "AppliedIndexTerm" THEN p.value
                                            ELSE d.applied_index_term,
                     leader_lease |-> IF p.kind = "LeaderLease" THEN {p.value}
                                      ELSE d.leader_lease,
                     last_valid_ts |-> d.last_valid_ts]]
      [] task.kind = "Destroy" -> [r \in DOMAIN ds \ {task.region_id} |-> ds[r]]
      [] OTHER -> ds

\* The registry after the tasks, in order.
RECURSIVE RegistryAfter(_, _)
RegistryAfter(ds, tasks) ==
    IF tasks = << >> THEN ds ELSE RegistryAfter(AfterTask(ds, Head(tasks)), Tail(tasks))

\* The tasks processed so far.
Preceding == SubSeq(drained.tasks, 1, drained.pos)

\* Two registries with the same regions and, last_valid_ts apart, the same
\* delegates.
SameDelegates(ds, es) ==
    /\ DOMAIN ds = DOMAIN es
    /\ \A r \in DOMAIN ds : [ds[r] EXCEPT !.last_valid_ts = 0] = [es[r] EXCEPT !.last_valid_ts = 0]

\* The step answers, rejects or hands on the read as decided.
ReadOutcome(req, cb, decision) ==
    CASE decision = "Local" ->
            /\ ch' = ch
            /\ Len(invoked') = 1
            /\ invoked'[1].callback = cb
            /\ invoked'[1].resp.error = ""
            /\ invoked'[1].resp.snapshot = req.region_id
      [] decision = "Error" ->
            /\ ch' = ch
            /\ Len(invoked') = 1
            /\ invoked'[1].callback = cb
            /\ invoked'[1].resp.error \in {"StoreNotMatch", "PeerNotMatch", "StaleCommand"}
            /\ invoked'[1].resp.snapshot = 0
      [] decision = "Forward" ->
            IF Len(ch) < ChannelCap
            THEN ch' = Append(ch, RaftCmd(req, cb)) /\ invoked' = << >>
            ELSE ch' = ch /\ invoked' = <<[callback |-> cb, resp |-> BusyResponse]>>

\* The read passes the header and applied-term checks of ds and meets a
\* lease of another term than the delegate's.
MeetsLeaseOfOtherTerm(req, ds) ==
    /\ req.store_id = StoreId
    /\ req.region_id \in DOMAIN ds
    /\ LET d == ds[req.region_id] IN
       /\ req.peer_id = d.peer_id /\ req.term = d.term /\ req.version >= d.version
       /\ ~req.read_quorum
       /\ d.applied_index_term = d.term
       /\ d.leader_lease # None
       /\ Unwrap(d.leader_lease).term # d.term

\* C22 (in-batch ordering): a Read task is decided against the registry
\* produced by exactly the Register, Update and Destroy tasks drained before
\* it, none of those after it: the registry the read meets is the one after
\* the preceding tasks, the read is answered, rejected or handed on as that
\* registry decides, and a read that passes the term check and meets a lease
\* of another term is handed on with term_mismatch grown by one.
C22_InBatchOrdering ==
    [][TaskReadRaftCmd(OrderRequest, 1)
          => LET D == RegistryAfter(drained.start, Preceding) IN
             /\ SameDelegates(D, delegates)
             /\ ReadOutcome(OrderRequest, 1, DecisionOn(OrderRequest, D, SnapshotTime(exec)))
             /\ MeetsLeaseOfOtherTerm(OrderRequest, D)
                   => /\ DecisionOn(OrderRequest, D, SnapshotTime(exec)) = "Forward"
                      /\ metrics'["term_mismatch"] = metrics["term_mismatch"] + 1]_vars

\* The batch [.., Update(term 2), Update(applied_index_term 2), Read(term 2)]
\* over a lease at term 1: the read sits in the channel, term_mismatch is 1
\* and no callback was invoked.
C22_Witness ==
    /\ drained.on
    /\ drained.pos >= 3
    /\ drained.tasks[drained.pos - 2] = UpdateTask(1, Progress("Term", 2))
    /\ drained.tasks[drained.pos - 1] = UpdateTask(1, Progress("AppliedIndexTerm", 2))
    /\ drained.tasks[drained.pos] = ReadTask(RaftCmd(OrderRequest, 1))
    /\ 1 \in DOMAIN delegates
    /\ delegates[1].leader_lease # None
    /\ Unwrap(delegates[1].leader_lease).term = 1
    /\ metrics["term_mismatch"] = 1
    /\ TotalRejects(metrics) = 1
    /\ ch = <<RaftCmd(OrderRequest, 1)>>
    /\ invoked = << >>

\* The positions of the processed Register and Destroy tasks for region r.
MembershipTasks(r) ==
    {i \in 1..drained.pos :
        \/ drained.tasks[i].kind = "Register" /\ drained.tasks[i].delegate.region_id = r
        \/ drained.tasks[i].kind = "Destroy" /\ drained.tasks[i].region_id = r}

LastOf(S) == CHOOSE i \in S : \A j \in S : j <= i

\* The position of the most recent Register or Destroy for r (0: none yet).
LastMembershipTask(r) == IF MembershipTasks(r) = {} THEN 0 ELSE LastOf(MembershipTasks(r))

\* The delegate the most recent Register for r carried, when no Destroy for
\* r came after it; without any Register or Destroy for r, the delegate
\* LocalReader::new built when the store had a peer of r.
Carried(r) ==
    LET i == LastMembershipTask(r) IN
    IF i = 0
    THEN IF r \in DOMAIN drained.start THEN {drained.start[r]} ELSE {}
    ELSE IF drained.tasks[i].kind = "Register" THEN {drained.tasks[i].delegate} ELSE {}

\* The positions of the processed Updates of one kind for r since the most
\* recent Register or Destroy for r.
UpdatesSince(r, kind) ==
    {i \in (LastMembershipTask(r) + 1)..drained.pos :
        /\ drained.tasks[i].kind = "Update"
        /\ drained.tasks[i].region_id = r
        /\ drained.tasks[i].progress.kind = kind}

\* The value of a field: the one of the latest Update of its kind, if any,
\* else the carried one.
Updated(r, kind, carried) ==
    IF UpdatesSince(r, kind) = {} THEN carried
    ELSE drained.tasks[LastOf(UpdatesSince(r, kind))].progress.value

\* The carried delegate of r with the later Updates for r applied.
Expected(r) ==
    LET d == Unwrap(Carried(r)) IN
    [region_id |-> d.region_id,
     version |-> Updated(r, "Region", d.version),
     peer_id |-> d.peer_id,
     term |-> Updated(r, "Term", d.term),
     applied_index_term |-> Updated(r, "AppliedIndexTerm", d.applied_index_term),
     leader_lease |-> IF UpdatesSince(r, "LeaderLease") = {} THEN d.leader_lease
                      ELSE {Updated(r, "LeaderLease", d)},
     last_valid_ts |-> d.last_valid_ts]

\* C23 as stated: region r has a delegate iff the most recent Register or
\* Destroy task for r was a Register, and the delegate is exactly the one
\* that Register carried with the later Updates for r applied.
C23_RegistryByTasksOnly ==
    \A r \in RegionIds :
        LET i == LastMembershipTask(r) IN
        /\ r \in DOMAIN delegates <=> (i # 0 /\ drained.tasks[i].kind = "Register")
        /\ r \in DOMAIN delegates => delegates[r] = Expected(r)

\* C23, amended: region r has a delegate iff the most recent Register or
\* Destroy task for r was a Register or, with no such task yet, the store
\* had a peer of r at construction; the delegate is the carried one with the
\* later Updates for r applied, last_valid_ts apart (reads served locally set
\* it). A read with the reader's store id for a region whose delegate is
\* gone counts no_region and is handed on, and Register, Update and Destroy
\* leave the channel alone.
C23_RegistryMembership ==
    /\ [](\A r \in RegionIds :
            /\ r \in DOMAIN delegates <=> Carried(r) # {}
            /\ r \in DOMAIN delegates
                  => [delegates[r] EXCEPT !.last_valid_ts = 0]
                        = [Expected(r) EXCEPT !.last_valid_ts = 0])
    /\ [][/\ (TaskReadRaftCmd(OrderRequest, 1) /\ Carried(OrderRequest.region_id) = {})
                => /\ metrics'["no_region"] = metrics["no_region"] + 1
                   /\ ReadOutcome(OrderRequest, 1, "Forward")
          /\ ((\E d \in OrderDelegates : TaskRegister(d))
                 \/ (\E p \in OrderProgresses : TaskUpdate(1, p))
                 \/ TaskDestroy(1))
                => ch' = ch]_vars

\* Region 1 was destroyed, registered again and updated: it has the
\* delegate of the Register at the term of the Update.
C23_Witness ==
    /\ drained.on
    /\ drained.pos = 3
    /\ drained.tasks[1] = DestroyTask(1)
    /\ drained.tasks[2].kind = "Register"
    /\ drained.tasks[3] = UpdateTask(1, Progress("Term", 2))
    /\ 1 \in DOMAIN delegates
    /\ delegates[1].term = 2
    /\ delegates[1].peer_id = drained.tasks[2].delegate.peer_id

\* The checks of pre_propose in the order of the claim, and what the first
\* failing one yields: the result (an error, or None to forward) and the
\* counter. "read_quorum" is the inspector's answer to a read that asks for
\* a quorum read: it comes after the epoch check and has no counter.
CheckOutcome ==
    [store_id |-> [res |-> "Err", err |-> "StoreNotMatch", counter |-> "store_id_mismatch"],
     region |-> [res |-> "None", err |-> "", counter |-> "no_region"],
     peer_id |-> [res |-> "Err", err |-> "PeerNotMatch", counter |-> "peer_id_mismatch"],
     term |-> [res |-> "Err", err |-> "StaleCommand", counter |-> "term_mismatch"],
     epoch |-> [res |-> "None", err |-> "", counter |-> "epoch"],
     read_quorum |-> [res |-> "None", err |-> "", counter |-> ""],
     applied_index_term |-> [res |-> "None", err |-> "", counter |-> "appiled_term"],
     lease |-> [res |-> "None", err |-> "", counter |-> "no_lease"],
     pass |-> [res |-> "Some", err |-> "", counter |-> ""]]

\* The first failing check among store id, region presence, peer id, term,
\* epoch, applied-index-term and lease presence ("pass": none fails); with
\* quorum the read_quorum flag is looked at after the epoch.
FirstFailing(req, quorum) ==
    IF req.store_id # StoreId THEN "store_id"
    ELSE IF req.region_id \notin DOMAIN delegates THEN "region"
    ELSE LET d == delegates[req.region_id] IN
         IF req.peer_id # d.peer_id THEN "peer_id"
         ELSE IF req.term # d.term THEN "term"
         ELSE IF req.version < d.version THEN "epoch"
         ELSE IF quorum /\ req.read_quorum THEN "read_quorum"
         ELSE IF d.applied_index_term # d.term THEN "applied_index_term"
         ELSE IF d.leader_lease = None THEN "lease"
         ELSE "pass"

\* pre_propose answers req as the check says and counts under its counter
\* alone.
AnswersAs(req, check) ==
    LET p == pre_propose_raft_command(req, delegates, metrics)
        o == CheckOutcome[check]
    IN  /\ p.res = o.res
        /\ p.err = o.err
        /\ p.metrics = IF o.counter = "" THEN metrics ELSE Inc(metrics, o.counter)

\* C25 as stated: the outcome and the counter of every request are those of
\* the first failing check among store id, region presence, peer id, term,
\* epoch, applied-index-term and lease presence.
C25_ListedChecksOnly ==
    \A req \in Requests :
        FirstFailing(req, FALSE) # "pass" => AnswersAs(req, FirstFailing(req, FALSE))

\* C25, amended: the same with the read_quorum flag looked at between the
\* epoch and the applied-index-term: a read that asks for a quorum read and
\* passes the checks up to the epoch is forwarded without any counter; and a
\* Read task answers with the error, or hands the read on, as the first
\* failing check says.
C25_CheckOrder ==
    /\ [](\A req \in Requests : AnswersAs(req, FirstFailing(req, TRUE)))
    /\ [][(TaskReadRaftCmd(OrderRequest, 1) /\ FirstFailing(OrderRequest, TRUE) # "pass")
             => LET o == CheckOutcome[FirstFailing(OrderRequest, TRUE)] IN
                /\ metrics'[o.counter] = metrics[o.counter] + 1
                /\ \A c \in CounterNames \ {o.counter, "channel_full"} :
                      metrics'[c] = metrics[c]
                /\ ReadOutcome(OrderRequest, 1, IF o.res = "Err" THEN "Error" ELSE "Forward")]_vars

\* A read met a delegate with applied_index_term behind its term and no
\* lease: it sits in the channel, counted under appiled_term and not under
\* no_lease.
C25_Witness ==
    /\ 1 \in DOMAIN delegates
    /\ delegates[1].term = OrderRequest.term
    /\ delegates[1].applied_index_term # delegates[1].term
    /\ delegates[1].leader_lease = None
    /\ ch = <<RaftCmd(OrderRequest, 1)>>
    /\ metrics["appiled_term"] = 1
    /\ metrics["no_lease"] = 0
    /\ TotalRejects(metrics) = 1

\* No response of the step carries a snapshot.
NotServedLocally == \A i \in 1..Len(invoked') : invoked'[i].resp.snapshot = 0

-----------------------------------------------------------------------------
(* The lease's term, last_valid_ts and the Update task.                    *)

\* The delegate of region r holds a lease of another term than its own.
TermDetached(r) ==
    /\ r \in DOMAIN delegates
    /\ delegates[r].leader_lease # None
    /\ Unwrap(delegates[r].leader_lease).term # delegates[r].term

\* The step is Update(r, Term(t)) on a delegate whose lease has another term
\* than t.
TermUpdateOffLease(r, t) ==
    /\ r \in DOMAIN delegates
    /\ delegates[r].leader_lease # None
    /\ Unwrap(delegates[r].leader_lease).term # t
    /\ TaskUpdate(r, Progress("Term", t))

AnswersLocally(r) ==
    \E i \in 1..Len(invoked') :
        invoked'[i].resp.error = "" /\ invoked'[i].resp.snapshot = r

\* The regions that have a delegate before and after the step.
Kept == DOMAIN delegates \cap DOMAIN delegates'

\* The last_valid_ts of some delegate differs after the step.
TsChanged == \E r \in Kept : delegates'[r].last_valid_ts # delegates[r].last_valid_ts

\* An Update leaves every last_valid_ts as it is, and a read that is not
\* answered locally leaves the registry as it is: a step that changes them
\* is no such task.
UpdatesAndRejectedReadsKeepTs ==
    /\ TsChanged => ~\E u \in LeaseUpdates : TaskUpdate(u[1], u[2])
    /\ delegates' # delegates
          => \A req \in LeaseRequests, cb \in CallbackIds :
                TaskReadRaftCmd(req, cb) => AnswersLocally(req.region_id)

\* C28 as stated: the last_valid_ts of a region's delegate changes only in a
\* read answered locally, which sets it to the batch's snapshot_time; it
\* never decreases, whatever Register, Update, Destroy and Read tasks are
\* processed; Updates and rejected reads leave it as it is.
C28_NeverDecreases ==
    [][/\ \A r \in Kept :
             /\ delegates'[r].last_valid_ts >= delegates[r].last_valid_ts
             /\ delegates'[r].last_valid_ts # delegates[r].last_valid_ts
                   => /\ AnswersLocally(r)
                      /\ delegates'[r].last_valid_ts = SnapshotTime(exec)
       /\ UpdatesAndRejectedReadsKeepTs]_vars

\* C28, amended: as long as the delegate of a region is not replaced by a
\* Register, its last_valid_ts changes only in a read answered locally,
\* which sets it to the batch's snapshot_time, and never decreases; Updates
\* and rejected reads leave it as it is. A Register for a region that has a
\* delegate puts the new delegate in its place, with last_valid_ts 0 and no
\* lease, whatever the old last_valid_ts was.
C28_LastValidTs ==
    [][/\ \A r \in Kept :
             delegates'[r].last_valid_ts # delegates[r].last_valid_ts
                 => \/ /\ AnswersLocally(r)
                       /\ delegates'[r].last_valid_ts = SnapshotTime(exec)
                       /\ delegates'[r].last_valid_ts > delegates[r].last_valid_ts
                       /\ delegates' = [delegates EXCEPT ![r].last_valid_ts = SnapshotTime(exec)]
                    \/ /\ delegates'[r] \in LeaseDelegates
                       /\ delegates'[r].last_valid_ts = 0
                       /\ delegates'[r].leader_lease = None
                       /\ invoked' = << >>
       /\ \A d \in LeaseDelegates :
             (d.region_id \in DOMAIN delegates' /\ delegates'[d.region_id].last_valid_ts # 0)
                 => ~TaskRegister(d)
       /\ UpdatesAndRejectedReadsKeepTs]_vars

\* A read of an earlier batch was answered locally and set last_valid_ts to
\* that batch's snapshot_time; in the present batch, later on the clock, the
\* lease has expired and the read that met it sits in the channel, with
\* last_valid_ts still at the earlier time.
C28_Witness ==
    /\ 1 \in DOMAIN delegates
    /\ exec.active
    /\ exec.snapshot_time # None
    /\ delegates[1].last_valid_ts > 0
    /\ delegates[1].last_valid_ts < SnapshotTime(exec)
    /\ Len(ch) = 1
    /\ invoked = << >>
    /\ metrics["lease_expire"] = 1

\* C29 (update for an unknown region): an Update task for a region that has
\* no delegate leaves the registry as it is (no delegate is created, none is
\* modified), sends nothing to the channel, invokes no callback and changes
\* no counter.
C29_UnknownRegionUpdateDropped ==
    [][\A p \in OrderProgresses :
          (1 \notin DOMAIN delegates /\ TaskUpdate(1, p))
              => /\ delegates' = delegates
                 /\ ch' = ch
                 /\ metrics' = metrics
                 /\ invoked' = << >>
                 /\ ~panicked']_vars

\* The last task processed is an Update for region 1, which has no
\* delegate; region 2's delegate is the one LocalReader::new built, the
\* channel is empty and no counter has moved.
C29_Witness ==
    /\ drained.pos >= 1
    /\ drained.tasks[drained.pos].kind = "Update"
    /\ drained.tasks[drained.pos].region_id = 1
    /\ 1 \notin DOMAIN delegates
    /\ LastMembershipTask(1) < drained.pos
    /\ DOMAIN delegates = {2}
    /\ delegates[2] = drained.start[2]
    /\ ch = << >>
    /\ invoked = << >>
    /\ TotalRejects(metrics) = 0

-----------------------------------------------------------------------------
(* SpecUpdate: the Update task. Regions 1 and 2 are registered; every kind *)
(* of Progress updates region 1, a Term updates region 2, and region 1 is  *)
(* read.                                                                   *)

UpdateDelegates == {from_peer(r, 1, 2, 1, 1) : r \in RegionIds}

UpdateProgresses ==
    {Progress("Region", 2), Progress("Term", 2), Progress("AppliedIndexTerm", 2)}
    \cup {Progress("LeaderLease", NewRemoteLease(t, MaxTime + 1)) : t \in Terms}

UpdateUpdates == ({1} \X UpdateProgresses) \cup {<<2, Progress("Term", 2)>>}

UpdateRequests == {[GoodRequest EXCEPT !.term = t] : t \in Terms}

NextUpdate ==
    \/ BeginBatch(ChecksMaxTime)
    \/ EndBatch
    \/ \E d \in UpdateDelegates : TaskRegister(d)
    \/ \E u \in UpdateUpdates : TaskUpdate(u[1], u[2])
    \/ \E req \in UpdateRequests : TaskReadRaftCmd(req, 1)

SpecUpdate == Init /\ [][NextUpdate]_vars

\* e is d with the one field named by the progress set to its value and
\* every other field as in d.
OneFieldChanged(d, e, p) ==
    /\ e.region_id = d.region_id
    /\ e.peer_id = d.peer_id
    /\ e.last_valid_ts = d.last_valid_ts
    /\ e.version = IF p.kind = "Region" THEN p.value ELSE d.version
    /\ e.term = IF p.kind = "Term" THEN p.value ELSE d.term
    /\ e.applied_index_term = IF p.kind = "AppliedIndexTerm" THEN p.value
                              ELSE d.applied_index_term
    /\ e.leader_lease = IF p.kind = "LeaderLease" THEN Some(p.value) ELSE d.leader_lease

\* C30 (update frame): an Update(region_id, P) for a registered region sets
\* the one field of that region's delegate that P names (region, term,
\* applied_index_term or leader_lease) and leaves its other fields, peer_id
\* and last_valid_ts among them, the delegates of the other regions and the
\* set of registered regions as they are; a Read task changes no field of
\* any delegate other than last_valid_ts.
C30_UpdateFrame ==
    [][/\ \A u \in UpdateUpdates :
             (u[1] \in DOMAIN delegates /\ TaskUpdate(u[1], u[2]))
                 => /\ DOMAIN delegates' = DOMAIN delegates
                    /\ OneFieldChanged(delegates[u[1]], delegates'[u[1]], u[2])
                    /\ \A r \in DOMAIN delegates \ {u[1]} : delegates'[r] = delegates[r]
       /\ \A req \in UpdateRequests :
             TaskReadRaftCmd(req, 1) => SameDelegates(delegates, delegates')]_vars

\* Region 1's delegate was read locally under a lease of term 1 and has
\* since been updated to region version 2 and term 2: last_valid_ts and
\* peer_id are as before, and region 2's delegate is as it was registered.
C30_Witness ==
    /\ DOMAIN delegates = {1, 2}
    /\ delegates[1].version = 2
    /\ delegates[1].term = 2
    /\ delegates[1].applied_index_term = 1
    /\ delegates[1].peer_id = 2
    /\ delegates[1].leader_lease = Some(NewRemoteLease(1, MaxTime + 1))
    /\ delegates[1].last_valid_ts > 0
    /\ delegates[2] = from_peer(2, 1, 2, 1, 1)

-----------------------------------------------------------------------------
(* SpecChannel: the consensus channel fills, drains and goes away while    *)
(* region 1 is registered, given a lease and read.                         *)

ChannelDelegates == {from_peer(1, 2, 2, 1, 1)}

ChannelProgresses ==
    {Progress("LeaderLease", NewRemoteLease(t, MaxTime + 1)) : t \in Terms}

\* Reads of region 1 (known once registered) and of region 2 (never
\* registered), and reads of region 1 for another store, with a peer id the
\* delegate does not have, or at another term.
ChannelRequests ==
    {GoodRequest, [GoodRequest EXCEPT !.region_id = 2],
     [GoodRequest EXCEPT !.store_id = StoreId + 1],
     [GoodRequest EXCEPT !.peer_id = 3],
     [GoodRequest EXCEPT !.term = 2]}

NextChannel ==
    \/ BeginBatch(MaxTime)
    \/ EndBatch
    \/ \E d \in ChannelDelegates : TaskRegister(d)
    \/ \E p \in ChannelProgresses : TaskUpdate(1, p)
    \/ \E req \in ChannelRequests : TaskReadRaftCmd(req, 1)
    \/ Recv
    \/ Flush
    \/ Disconnect

SpecChannel == Init /\ [][NextChannel]_vars

\* C31 (fatal channel error): a read that has to be forwarded when the send
\* on the channel fails with an error other than Full makes the reader
\* panic: its callback is not invoked, no ServerIsBusy response is made up,
\* channel_full does not grow and nothing is enqueued, also when the channel
\* is full at that moment. The reader panics for no other reason, and a read
\* that is answered without forwarding is answered as before.
C31_FatalChannelError ==
    /\ [](panicked => (ch_closed /\ invoked = << >>))
    /\ [][ch_closed
            => \A req \in ChannelRequests :
                  TaskReadRaftCmd(req, 1)
                     => IF req \in MustForward
                        THEN /\ panicked'
                             /\ invoked' = << >>
                             /\ ch' = ch
                             /\ metrics'["channel_full"] = metrics["channel_full"]
                        ELSE /\ ~panicked'
                             /\ Len(invoked') = 1
                             /\ invoked'[1].resp # BusyResponse
                             /\ ch' = ch]_vars

\* The reader has panicked over a full channel whose receiving end is gone:
\* the read it was forwarding was counted as rejected, channel_full is 0 and
\* no callback was invoked.
C31_Witness ==
    /\ panicked
    /\ ch_closed
    /\ Len(ch) >= ChannelCap
    /\ metrics["channel_full"] = 0
    /\ TotalRejects(metrics) = 1
    /\ invoked = << >>

\* The outcomes of a Read(RaftCmd(req, cb)) step: the callback invoked once
\* with a local response, the callback invoked once with an error response,
\* the original message enqueued on the channel.
AnsweredLocally(req, cb) ==
    /\ Len(invoked') = 1
    /\ invoked'[1].callback = cb
    /\ invoked'[1].resp.error = ""
    /\ invoked'[1].resp.snapshot = req.region_id

AnsweredWithError(req, cb) ==
    /\ Len(invoked') = 1
    /\ invoked'[1].callback = cb
    /\ invoked'[1].resp.error
          \in {"StoreNotMatch", "PeerNotMatch", "StaleCommand", "ServerIsBusy"}
    /\ invoked'[1].resp.snapshot = 0

Enqueued(req, cb) == ch' = Append(ch, RaftCmd(req, cb))

\* The number of the outcomes that happened.
Outcomes(req, cb) ==
    (IF AnsweredLocally(req, cb) THEN 1 ELSE 0)
        + (IF AnsweredWithError(req, cb) THEN 1 ELSE 0)
        + (IF Enqueued(req, cb) THEN 1 ELSE 0)

-----------------------------------------------------------------------------
(* SpecTerminate: run_batch over task vectors fixed at entry, made of      *)
(* Register, Update and Destroy tasks and of RaftCmd reads, with the       *)
(* raftstore thread free to take messages from the channel or to leave it  *)
(* full. The reader thread runs the loop of run_batch without waiting for  *)
(* anything (ch.try_send never blocks): weak fairness on its steps.        *)

TerminateDelegates == {from_peer(1, 2, 2, 1, 1)}

TerminateProgresses == {Progress("LeaderLease", NewRemoteLease(1, MaxTime + 1))}

TerminateRequests == {GoodRequest, [GoodRequest EXCEPT !.region_id = 2]}

TerminateTasks ==
    {RegisterTask(d) : d \in TerminateDelegates}
    \cup {UpdateTask(1, p) : p \in TerminateProgresses}
    \cup {DestroyTask(1)}
    \cup {ReadTask(RaftCmd(req, 1)) : req \in TerminateRequests}

InitTerminate == LocalReaderNew(<< >>, TRUE) /\ EngineInit /\ SstInit

\* One step of the loop of run_batch, or its return.
ReaderStep ==
    \/ \E d \in TerminateDelegates : TaskRegister(d)
    \/ \E p \in TerminateProgresses : TaskUpdate(1, p)
    \/ TaskDestroy(1)
    \/ \E req \in TerminateRequests : ReadRaftCmd(req, 1)
    \/ EndBatch

NextTerminate ==
    \/ RunBatch(TerminateTasks, MaxTime)
    \/ EndBatch
    \/ \E d \in TerminateDelegates : TaskRegister(d)
    \/ \E p \in TerminateProgresses : TaskUpdate(1, p)
    \/ TaskDestroy(1)
    \/ \E req \in TerminateRequests : ReadRaftCmd(req, 1)
    \/ Recv

SpecTerminate == InitTerminate /\ [][NextTerminate]_vars /\ WF_vars(ReaderStep)

\* The number of tasks of the vectors handed to run_batch so far that are
\* still in them.
Remaining == Len(drained.tasks) - drained.pos

\* The step is the processing of the first remaining task: the task leaves
\* the vector and the vector is not touched otherwise.
TakesOne ==
    /\ drained.pos < Len(drained.tasks)
    /\ drained' = [drained EXCEPT !.pos = @ + 1]

\* The last task processed was a read forwarded into the full channel.
LastReadBusy ==
    /\ drained.pos > 0
    /\ drained.tasks[drained.pos].kind = "Read"
    /\ invoked = <<[callback |-> 1, resp |-> BusyResponse]>>

-----------------------------------------------------------------------------
(* Properties of the range planner.                                        *)

\* The result of the last get_approximate_ranges call, and its arguments.
Planned == Unwrap(ranges)

\* The ranges form a contiguous cover of [RANGE_MIN, RANGE_MAX].
IsCover(out) ==
    /\ Len(out) >= 1
    /\ out[1].start = RANGE_MIN
    /\ out[Len(out)].end = RANGE_MAX
    /\ \A i \in 1..(Len(out) - 1) : out[i].end = out[i + 1].start

\* C3 as stated (range cover, P4): for every SizeProperties the engine
\* returns, every max_ranges >= 1 and every min_range_size, the result of
\* get_approximate_ranges starts at RANGE_MIN, ends at RANGE_MAX and each
\* range ends where the next starts.
C3_RangeCoverAnyProps == ranges # None => IsCover(Planned.out)

\* C3, amended: the same for every SizeProperties with at least one index
\* handle (an engine with at least one flushed table).
C3_RangeCover ==
    (ranges # None /\ Unwrap(props).index_handles # << >>) => IsCover(Planned.out)

\* A cover of three ranges was planned.
C3_Witness ==
    /\ ranges # None
    /\ Len(Planned.out) = 3
    /\ IsCover(Planned.out)
    /\ Planned.out[1].end # Planned.out[2].end

\* C4 as stated (range count, P5): with min_range_size = 0 and
\* max_ranges = k the result has at least 1 and at most k ranges, for every
\* SizeProperties the engine returns.
C4_RangeCountAnyProps ==
    (ranges # None /\ Planned.min_range_size = 0)
        => (1 <= Len(Planned.out) /\ Len(Planned.out) <= Planned.max_ranges)

\* C4, amended: the same for every SizeProperties with at least one index
\* handle.
C4_RangeCount ==
    (ranges # None /\ Planned.min_range_size = 0 /\ Unwrap(props).index_handles # << >>)
        => (1 <= Len(Planned.out) /\ Len(Planned.out) <= Planned.max_ranges)

\* With min_range_size = 0, more handles than max_ranges were planned into
\* exactly max_ranges ranges.
C4_Witness ==
    /\ ranges # None
    /\ Planned.min_range_size = 0
    /\ Planned.max_ranges = 2
    /\ Len(Planned.out) = 2
    /\ Len(Unwrap(props).index_handles) = 3

\* The engine holds the nine keys [0]..[8] of the load, all flushed, each
\* with the load's value.
NineKeyLoad ==
    /\ Len(script) = NumFiles * NumEntries
    /\ pc = Len(script)
    /\ db.mem = << >>

\* The boundaries of a result: the <<start, end>> pairs.
Boundaries(out) == [i \in 1..Len(out) |-> <<out[i].start, out[i].end>>]

\* C8 (S2): once the nine keys are written, in the interleaved order
\* (0,3,6)(1,4,7)(2,5,8) or in ascending order and whatever the tables they
\* were flushed into, get_size_properties followed by
\* get_approximate_ranges(props, 3, 0) returns exactly
\* [(RANGE_MIN,[2]), ([2],[5]), ([5],RANGE_MAX)].
C8_InterleavedSplitPoints ==
    (ranges # None /\ NineKeyLoad /\ Planned.max_ranges = 3 /\ Planned.min_range_size = 0)
        => Boundaries(Planned.out) =
               << <<RANGE_MIN, <<2>> >>, << <<2>>, <<5>> >>, << <<5>>, RANGE_MAX>> >>

\* The interleaved load, one table per key as in the test, planned into 3.
C8_Witness ==
    /\ ranges # None
    /\ NineKeyLoad
    /\ script = LoadScript(InterleavedOrder)
    /\ Len(db.tables) = NumFiles * NumEntries
    /\ Planned.max_ranges = 3
    /\ Planned.min_range_size = 0
    /\ Len(Planned.out) = 3

\* C9 (target clamping, S3): every range but the last has at least
\* target = max(ceil(total_size / max_ranges), min_range_size) bytes; and on
\* the nine-key load get_approximate_ranges(props, 4, 4 * SIZE_INDEX_DISTANCE)
\* returns exactly [(RANGE_MIN,[3]), ([3],[7]), ([7],RANGE_MAX)].
C9_TargetClamping ==
    ranges # None =>
        /\ \A i \in 1..(Len(Planned.out) - 1) :
              Planned.out[i].size >= Max((Unwrap(props).total_size + Planned.max_ranges - 1)
                                             \div Planned.max_ranges,
                                         Planned.min_range_size)
        /\ (NineKeyLoad /\ Planned.max_ranges = 4
                /\ Planned.min_range_size = 4 * SIZE_INDEX_DISTANCE)
              => Boundaries(Planned.out) =
                     << <<RANGE_MIN, <<3>> >>, << <<3>>, <<7>> >>, << <<7>>, RANGE_MAX>> >>

\* The interleaved load planned with max_ranges = 4 and the clamping
\* min_range_size: three ranges, not four.
C9_Witness ==
    /\ ranges # None
    /\ NineKeyLoad
    /\ script = LoadScript(InterleavedOrder)
    /\ Planned.max_ranges = 4
    /\ Planned.min_range_size = 4 * SIZE_INDEX_DISTANCE
    /\ Len(Planned.out) = 3
    /\ Planned.out[1].size = 4 * SIZE_INDEX_DISTANCE

\* ceil(a / b) for b > 0.
CeilDiv(a, b) == (a + b - 1) \div b

\* The planner's target for the last call and the bound it gives on the
\* number of ranges (1 when the target is 0: an engine without data and
\* min_range_size = 0).
PlannedTarget ==
    Max(CeilDiv(Unwrap(props).total_size, Planned.max_ranges), Planned.min_range_size)

CountBound ==
    IF PlannedTarget = 0 THEN 1
    ELSE Max(1, CeilDiv(Unwrap(props).total_size, PlannedTarget))

\* C32 (range count bound): for every SizeProperties the engine returns,
\* every max_ranges >= 1 and every min_range_size, with target =
\* max(ceil(total_size / max_ranges), min_range_size), the number of ranges
\* get_approximate_ranges returns is at most max(1, ceil(total_size /
\* target)).
C32_RangeCountBound == ranges # None => Len(Planned.out) <= CountBound

\* The nine handles of the load were planned with min_range_size four index
\* distances: three ranges, which is the bound, where max_ranges alone
\* allowed four.
C32_Witness ==
    /\ ranges # None
    /\ Planned.min_range_size = SIZE_INDEX_DISTANCE * 4
    /\ Planned.max_ranges = 4
    /\ Len(Unwrap(props).index_handles) = 9
    /\ CountBound = 3
    /\ Len(Planned.out) = 3

\* The index handles of the tables one after the other, and the sum of the
\* tables' total_size.
RECURSIVE ConcatHandles(_)
ConcatHandles(tables) ==
    IF tables = << >> THEN << >>
    ELSE TableProperties(tables[1]).index_handles \o ConcatHandles(Tail(tables))

RECURSIVE SumTotalSize(_)
SumTotalSize(tables) ==
    IF tables = << >> THEN 0
    ELSE TableProperties(tables[1]).total_size + SumTotalSize(Tail(tables))

\* The handles are in strictly ascending key order.
AscendingKeys(h) == \A i \in 1..(Len(h) - 1) : KeyLess(h[i][1], h[i + 1][1])

\* The sum of the sizes of the handles i..j.
RECURSIVE SumHandleSizes(_, _, _)
SumHandleSizes(h, i, j) ==
    IF i > j THEN 0 ELSE h[i][2].size + SumHandleSizes(h, i + 1, j)

\* The position of the handle with key k.
HandleAt(h, k) == CHOOSE j \in 1..Len(h) : h[j][1] = k

\* The ranges out are the walk over the handles h in their order with the
\* given target: each range but the last ends at the key of the handle at
\* which the size accumulated since the previous boundary reaches the
\* target, and the last range takes the remaining handles.
IsWalk(h, out, target) ==
    /\ (h = << >>) <=> (out = << >>)
    /\ \A i \in 1..Len(out) :
          LET first == IF i = 1 THEN 1 ELSE HandleAt(h, out[i].start) + 1
              last == IF i = Len(out) THEN Len(h) ELSE HandleAt(h, out[i].end)
          IN  /\ i < Len(out) => out[i].end \in MapKeys(h)
              /\ i = Len(out) => out[i].end = RANGE_MAX
              /\ first <= last
              /\ out[i].size = SumHandleSizes(h, first, last)
              /\ i < Len(out) => /\ out[i].size >= target
                                 /\ out[i].size - h[last][2].size < target

\* C33 as stated: get_size_properties returns total_size equal to the sum of
\* the tables' total_size and index_handles equal to the concatenation of
\* the tables' index handles in table order, every handle kept and not
\* re-sorted by key.
C33_HandlesConcatenated ==
    props # None
        => /\ Unwrap(props).total_size = SumTotalSize(db.tables)
           /\ Unwrap(props).index_handles
                  \in {ConcatHandles(db.tables), ConcatHandles(Reverse(db.tables))}

\* C33, amended: get_size_properties returns total_size equal to the sum of
\* the tables' total_size and index_handles equal to the merge of the
\* tables' index handles by key: in ascending key order whatever the order
\* of the tables, one handle for every key that has a handle in some table,
\* taken from one of the tables that have it; get_approximate_ranges walks
\* the handles in that key order and uses the key of the handle at which the
\* accumulated size reaches the target as the range boundary.
C33_MergedSizeProperties ==
    props # None
        => LET p == Unwrap(props)
               all == ConcatHandles(db.tables)
           IN
           /\ p.total_size = SumTotalSize(db.tables)
           /\ AscendingKeys(p.index_handles)
           /\ MapKeys(p.index_handles) = MapKeys(all)
           /\ {p.index_handles[i] : i \in 1..Len(p.index_handles)}
                  \subseteq {all[j] : j \in 1..Len(all)}
           /\ ranges # None => IsWalk(p.index_handles, Planned.out, PlannedTarget)

\* The nine keys were flushed into the three tables (0,3,6), (1,4,7) and
\* (2,5,8): the merged handles are in key order, which is not the tables'
\* order, and the three ranges end at [2], [5] and RANGE_MAX.
C33_Witness ==
    /\ props # None
    /\ ranges # None
    /\ NineKeyLoad
    /\ script = LoadScript(InterleavedOrder)
    /\ Len(db.tables) = NumFiles
    /\ \A t \in 1..NumFiles : Len(db.tables[t]) = NumEntries
    /\ Unwrap(props).index_handles # ConcatHandles(db.tables)
    /\ Len(Unwrap(props).index_handles) = 9
    /\ Planned.max_ranges = 3
    /\ Planned.min_range_size = 0
    /\ Boundaries(Planned.out) =
           << <<RANGE_MIN, <<2>> >>, << <<2>>, <<5>> >>, << <<5>>, RANGE_MAX>> >>

-----------------------------------------------------------------------------
(* Properties of Engine::write.                                            *)

\* The batch written last.
Written == Unwrap(batch)

\* What the engine returns for the key of mutation i of the batch.
GetMutation(i) ==
    DbGet(db, append_ts(from_raw(Written.mutations[i].key), Written.commit_ts))

\* The last mutation of the batch that has the key of mutation i.
LastMutationOf(i) ==
    LET same == {j \in 1..Len(Written.mutations) :
                    Written.mutations[j].key = Written.mutations[i].key}
    IN  Written.mutations[CHOOSE j \in same : \A l \in same : l <= j]

\* C5 as stated (ingest round-trip, P1): after Engine::write of a batch with
\* commit timestamp ts, engine.get(append_ts(encode(k), ts)) is v for every
\* mutation (Put, k, v) of the batch, also when the batch holds a key twice.
C5_RoundTripEveryMutation ==
    batch # None =>
        \A i \in 1..Len(Written.mutations) :
            GetMutation(i) = Some(Written.mutations[i].value)

\* C5, amended: engine.get(append_ts(encode(k), ts)) is the value of the last
\* mutation of the batch for key k (so it is v for every mutation when the
\* keys of the batch are distinct).
C5_RoundTrip ==
    batch # None =>
        \A i \in 1..Len(Written.mutations) :
            GetMutation(i) = Some(LastMutationOf(i).value)

\* A batch holding one key twice, with different values, was written and
\* flushed.
C5_Witness ==
    /\ batch # None
    /\ Len(Written.mutations) = 2
    /\ Written.mutations[1].key = Written.mutations[2].key
    /\ Written.mutations[1].value # Written.mutations[2].value
    /\ db.mem = << >>
    /\ db.tables # << >>

-----------------------------------------------------------------------------
(* Properties of the SST writer.                                           *)

\* The puts that returned Ok and carried a long value.
LongPuts == {i \in 1..Len(puts) : ~is_short_value(puts[i].value)}

\* Every put that returned Ok has commit timestamp ts.
AllPutsAt(ts) == \A i \in 1..Len(puts) : puts[i].ts = ts

\* C6 (SST equivalence, P2): after puts at one commit_ts in increasing key
\* order and finish, with every emitted file ingested into its column family
\* of a fresh store, an MVCC reader at that ts reads back the value of every
\* put key, and a key scan returns the put keys and no others.
C6_SstEquivalence ==
    \A ts \in SstCommitTimestamps :
        (store # None /\ AllPutsAt(ts)) =>
            /\ \A i \in 1..Len(puts) :
                  MvccGet(Unwrap(store), puts[i].raw, ts) = Some(Expand(puts[i].value))
            /\ scan_keys(Unwrap(store)) = [i \in 1..Len(puts) |-> from_raw(puts[i].raw)]

\* Three keys were put at one commit_ts, short and long values among them,
\* and the files were ingested.
C6_Witness ==
    /\ store # None
    /\ Len(puts) = 3
    /\ AllPutsAt(10)
    /\ LongPuts # {}
    /\ LongPuts # 1..Len(puts)
    /\ Len(Unwrap(infos)) = 2

\* The keys of the entries of an SstFileWriter.
FileKeys(f) == [i \in 1..Len(f.entries) |-> f.entries[i][1]]

\* The column families of the files finish returned, in order.
CfNames == [i \in 1..Len(Unwrap(infos)) |-> Unwrap(infos)[i].cf_name]

\* C7 (short-value placement, P3): every put (that returned Ok) adds one entry
\* to the write family, and one to the default family iff its value is long;
\* so finish emits a write file iff there was a put and a default file iff a
\* put carried a long value: one file (write) for short values only, two
\* files (default, write) once a value is long.
C7_ShortValuePlacement ==
    /\ sst.write_entries = Len(puts)
    /\ sst.default_entries = Cardinality(LongPuts)
    /\ FileKeys(sst.write) = [i \in 1..Len(puts) |-> data_key(puts[i].key)]
    /\ {FileKeys(sst.default)[i] : i \in 1..Len(sst.default.entries)}
           = {data_key(puts[i].key) : i \in LongPuts}
    /\ Len(sst.default.entries) = sst.default_entries
    /\ infos # None =>
           CfNames = (IF LongPuts # {} THEN <<"default">> ELSE << >>)
                         \o (IF puts # << >> THEN <<"write">> ELSE << >>)

\* Short values only were put and finish returned one file, of the write
\* family.
C7_Witness ==
    /\ infos # None
    /\ Len(puts) = 2
    /\ LongPuts = {}
    /\ CfNames = <<"write">>
    /\ sst.default_entries = 0

\* The keys handed to the puts (that returned Ok) that reached the writer of
\* a column family: every put reaches the write family, a put of a long
\* value the default family as well.
PutKeysOf(cf_name) ==
    {puts[i].key : i \in (IF cf_name = "default" THEN LongPuts ELSE 1..Len(puts))}

SmallestKey(K) == CHOOSE k \in K : \A j \in K : j = k \/ KeyLess(k, j)

LargestKey(K) == CHOOSE k \in K : \A j \in K : j = k \/ KeyLess(j, k)

\* C24 (SSTInfo range): for each file finish emits, range.start and
\* range.end are the smallest and the largest key put into the writer of the
\* file's column family, as handed to put (without the data prefix), and
\* cf_name names the family whose entries the file holds.
C24_SstInfoRange ==
    infos # None =>
        \A i \in 1..Len(Unwrap(infos)) :
            LET info == Unwrap(infos)[i] IN
            /\ info.cf_name \in {"default", "write"}
            /\ info.data = sst[info.cf_name].entries
            /\ PutKeysOf(info.cf_name) # {}
            /\ info.range.start = SmallestKey(PutKeysOf(info.cf_name))
            /\ info.range.end = LargestKey(PutKeysOf(info.cf_name))

\* Three puts, the second one alone with a long value: the default file
\* spans that key only, the write file the first to the third.
C24_Witness ==
    /\ infos # None
    /\ Len(puts) = 3
    /\ LongPuts = {2}
    /\ Len(Unwrap(infos)) = 2
    /\ Unwrap(infos)[1].cf_name = "default"
    /\ Unwrap(infos)[1].range = [start |-> puts[2].key, end |-> puts[2].key]
    /\ Unwrap(infos)[2].cf_name = "write"
    /\ Unwrap(infos)[2].range = [start |-> puts[1].key, end |-> puts[3].key]

\* The families of the files, in the order finish returned them.
FamiliesOf(files) == [i \in 1..Len(files) |-> files[i].cf_name]

\* C34 (finish output shape): finish returns the default family's file first
\* (if default_entries > 0) and then the write family's file (if
\* write_entries > 0); it returns the empty list when no put succeeded; and
\* default_entries <= write_entries in every reachable state, so a default
\* file is never returned without a write file after it.
C34_FinishShape ==
    /\ sst.default_entries <= sst.write_entries
    /\ puts = << >> => sst.write_entries = 0
    /\ infos # None
          => /\ FamiliesOf(Unwrap(infos)) =
                    (IF sst.default_entries > 0 THEN <<"default">> ELSE << >>)
                        \o (IF sst.write_entries > 0 THEN <<"write">> ELSE << >>)
             /\ FamiliesOf(Unwrap(infos)) \in {<< >>, <<"write">>, <<"default", "write">>}
             /\ puts = << >> => Unwrap(infos) = << >>

\* Two puts succeeded, one of them with a long value: finish returned the
\* default file with its one entry and then the write file with both.
C34_Witness ==
    /\ infos # None
    /\ Len(puts) = 2
    /\ sst.default_entries = 1
    /\ sst.write_entries = 2
    /\ FamiliesOf(Unwrap(infos)) = <<"default", "write">>
    /\ Len(Unwrap(infos)[1].data) = 1
    /\ Len(Unwrap(infos)[2].data) = 2
====
